---- MODULE Spec2Model ----
(***************************************************************************)
(* A model of the generic ORM convenience layer of payslip-tracker:        *)
(* the filter expression builder (base/model/filter.py), keyword search    *)
(* and pagination (base/model/search.py), ordering and the active-record   *)
(* CRUD operations and their transactions (base/model/base_model.py,       *)
(* base/model/relation.py), and the graph serializer (base/gql), over the  *)
(* entities of app/account/models.py and app/tracker/models.py.            *)
(*                                                                         *)
(* Conventions.  Every column value is an integer.  NULL stands for        *)
(* Python None / SQL NULL.  Text values are interned: a text column holds  *)
(* an index into Texts, the table of character sequences, which is listed  *)
(* in collation order so that ORDER BY on a text column is the order of    *)
(* the indices.  A key such as amount__in is the token sequence            *)
(* <<"amount", "__", "in">>; str.split is modelled by Split.               *)
(* SQL predicates are three-valued: "T", "F", "U" (unknown).               *)
(***************************************************************************)
EXTENDS Integers, Sequences, FiniteSets, TLC

\* db    the tables, each a set of rows
\* pre   the tables before the last operation
\* req   the last operation called and its arguments
\* resp  what that operation handed back
\* prev  the request and the response before the last
\* clock the number of write operations so far, and the time datetime.now
\*       returns to the next one
\* qa, qb, qc, qop   two filter objects, the object last composed from
\*       them, and the connective it was composed with
\* session   the AsyncSession's transaction: the committed Income table, the
\*       transaction's state, and the commits, flushes and rollbacks of the
\*       last operation (db is then what a query inside the session sees)
\* ser   the graph serializer: the loaded entity graph, the visited set, the
\*       instance cache, the output objects built and the gathered tasks
VARIABLES db, pre, req, resp, prev, clock, qa, qb, qc, qop, session, ser

vars == <<db, pre, req, resp, prev, clock, qa, qb, qc, qop, session, ser>>

\* ------------------------------------------------------------------ bounds
MaxIncomes == 2        \* rows of the Income table in the filter specification
MaxOrderRows == 3      \* rows of the Income table in the ordering specification
MaxLeaves == 4         \* Q objects in one composed filter
MaxPage == 3           \* page numbers asked for
MaxPageSize == 2       \* page sizes asked for
MaxCalls == 3          \* operations in one behaviour of the CRUD specification

\* ------------------------------------------------------------------ values
NULL == -1

Range(s) == {s[i] : i \in DOMAIN s}

\* The interned texts, in collation order; Text(i) is the value a text column
\* holds for the i-th of them (apart from NULL and the integers of the model).
Text(i) == 10 + i
Texts == << <<"A">>, <<"a", "b">>, <<"b">>, <<"b", "%">> >>
TextIds == {Text(i) : i \in DOMAIN Texts}
Chars(t) == Texts[CHOOSE i \in DOMAIN Texts : Text(i) = t]

\* str.lower / SQL lower() on one character and on a character sequence.
LowerChar(c) == IF c = "A" THEN "a" ELSE IF c = "B" THEN "b" ELSE c
Lower(s) == [i \in DOMAIN s |-> LowerChar(s[i])]

\* SQL LIKE: % matches any run of characters, _ exactly one.
RECURSIVE LikeMatch(_, _)
LikeMatch(s, p) ==
    IF p = <<>> THEN s = <<>>
    ELSE IF Head(p) = "%"
         THEN LikeMatch(s, Tail(p)) \/ (s # <<>> /\ LikeMatch(Tail(s), p))
    ELSE IF Head(p) = "_"
         THEN s # <<>> /\ LikeMatch(Tail(s), Tail(p))
    ELSE s # <<>> /\ Head(s) = Head(p) /\ LikeMatch(Tail(s), Tail(p))

\* ------------------------------------------------------ three-valued logic
B3(b) == IF b THEN "T" ELSE "F"
Not3(x) == IF x = "T" THEN "F" ELSE IF x = "F" THEN "T" ELSE "U"
And3(x, y) == IF x = "F" \/ y = "F" THEN "F"
              ELSE IF x = "T" /\ y = "T" THEN "T" ELSE "U"
Or3(x, y) == IF x = "T" \/ y = "T" THEN "T"
             ELSE IF x = "F" /\ y = "F" THEN "F" ELSE "U"

RECURSIVE AndAll(_)
\* sqlalchemy and_(*conds); and_() of nothing is an empty conjunction
AndAll(s) == IF s = <<>> THEN "T" ELSE And3(Head(s), AndAll(Tail(s)))

RECURSIVE OrAll(_)
\* sqlalchemy or_(*conds)
OrAll(s) == IF s = <<>> THEN "T" ELSE
            IF Len(s) = 1 THEN Head(s) ELSE Or3(Head(s), OrAll(Tail(s)))

\* column.is_(None), column == v, column.in_(V) on a column value c
IsNull3(c) == B3(c = NULL)
Eq3(c, v) == IF v = NULL THEN IsNull3(c)
             ELSE IF c = NULL THEN "U" ELSE B3(c = v)
Ne3(c, v) == IF v = NULL THEN Not3(IsNull3(c))
             ELSE IF c = NULL THEN "U" ELSE B3(c # v)
Cmp3(c, v, lt, eq) == IF c = NULL \/ v = NULL THEN "U"
                      ELSE B3((lt /\ c < v) \/ (~lt /\ c > v) \/ (eq /\ c = v))
In3(c, V) == IF V = {} THEN "F" ELSE IF c = NULL THEN "U" ELSE B3(c \in V)
Like3(c, p) == IF c = NULL \/ p = NULL THEN "U"
               ELSE B3(LikeMatch(Chars(c), Chars(p)))
ILike3(c, p) == IF c = NULL \/ p = NULL THEN "U"
                ELSE B3(LikeMatch(Lower(Chars(c)), Lower(Chars(p))))

\* ------------------------------------------------------------------ schema
Classes == {"Income", "Contact"}

Columns(cls) ==
    IF cls = "Income"
    THEN {"id", "contact_id", "amount", "description", "created_at"}
    ELSE {"id", "first_name"}

Relationships(cls) == IF cls = "Income" THEN {"contact"} ELSE {"incomes"}

RelTarget(cls, rel) == IF cls = "Income" THEN "Contact" ELSE "Income"

\* The ON clause of a relationship: parent row p of class cls, target row t.
Related(cls, rel, p, t) ==
    IF cls = "Income"
    THEN p.contact_id # NULL /\ t.id = p.contact_id
    ELSE t.contact_id # NULL /\ t.contact_id = p.id

\* The two contacts every database of the model holds.
ContactRows == { [id |-> 1, first_name |-> Text(1)],
                 [id |-> 2, first_name |-> Text(3)] }

\* ------------------------------------------------------------ key parsing
supported_operators ==
    {"eq", "lt", "gt", "lte", "gte", "ne", "in", "like", "ilike", "date",
     "notin", "lowerin", "exists"}

RECURSIVE SplitFrom(_, _, _, _)
\* str.split(sep) on a token sequence: a separator token closes the current
\* segment; the segment of a plain token is that token, an empty segment "".
SplitFrom(toks, seps, cur, acc) ==
    IF toks = <<>> THEN Append(acc, cur)
    ELSE IF Head(toks) \in seps
         THEN SplitFrom(Tail(toks), seps, "", Append(acc, cur))
         ELSE SplitFrom(Tail(toks), seps, Head(toks), acc)

Split(toks, seps) == SplitFrom(toks, seps, "", <<>>)

\* operator / column / relations of the split key parts
ParseKey(parts) ==
    IF Len(parts) > 1 /\ parts[Len(parts)] \in supported_operators
    THEN [operator |-> parts[Len(parts)],
          column |-> parts[Len(parts) - 1],
          relations |-> SubSeq(parts, 1, Len(parts) - 2)]
    ELSE [operator |-> "eq",
          column |-> parts[Len(parts)],
          relations |-> SubSeq(parts, 1, Len(parts) - 1)]

\* ------------------------------------------------------------ filter values
\* A filter value: a scalar v is [isList |-> FALSE, items |-> <<v>>], a
\* Python list [v1, ..] is [isList |-> TRUE, items |-> <<v1, ..>>].
Scalar(v) == [isList |-> FALSE, items |-> <<v>>]
List(s) == [isList |-> TRUE, items |-> s]

\* `if not isinstance(value, (list, tuple, set)): value = [value]`
AsList(value) == value.items

\* `[v for v in value if v is not None]`
NonNull(items) == Range(items) \ {NULL}

\* Python truth of a filter value (`if value:`)
Truthy(value) == IF value.isList THEN value.items # <<>>
                 ELSE value.items[1] \notin {NULL, 0}

\* `func.lower(column).in_([v.lower() for v in value])`
LowerIn3(c, items) ==
    IF items = <<>> THEN "F"
    ELSE IF c = NULL THEN "U"
    ELSE B3(\E i \in DOMAIN items : Lower(Chars(c)) = Lower(Chars(items[i])))

\* An attribute reached by getattr(model, name): a column with its value in
\* the current row, or a relationship with whether any related row exists.
ColumnAttr(v) == [isRel |-> FALSE, val |-> v, any |-> FALSE]
RelAttr(any) == [isRel |-> TRUE, val |-> NULL, any |-> any]

\* Q.build: the condition appended for one key; "E" is the ValueError of an
\* operator no branch handles.
Condition(operator, attr, value) ==
    LET c == attr.val
        v == value.items[1]
        items == AsList(value)
    IN CASE operator = "eq" -> Eq3(c, v)
         [] operator = "ne" -> Ne3(c, v)
         [] operator = "lt" -> Cmp3(c, v, TRUE, FALSE)
         [] operator = "lte" -> Cmp3(c, v, TRUE, TRUE)
         [] operator = "gt" -> Cmp3(c, v, FALSE, FALSE)
         [] operator = "gte" -> Cmp3(c, v, FALSE, TRUE)
         [] operator = "in" ->
              IF NULL \in Range(items)
              THEN Or3(In3(c, NonNull(items)), IsNull3(c))
              ELSE In3(c, Range(items))
         [] operator = "notin" ->
              IF NULL \in Range(items)
              THEN And3(Not3(In3(c, NonNull(items))), Not3(IsNull3(c)))
              ELSE Or3(IsNull3(c), Not3(In3(c, Range(items))))
         [] operator = "like" -> Like3(c, v)
         [] operator = "ilike" -> ILike3(c, v)
         [] operator = "lowerin" -> LowerIn3(c, items)
         [] operator = "exists" ->
              IF Truthy(value) THEN B3(attr.any) ELSE B3(~attr.any)
         [] OTHER -> "E"

\* The notin branch as it stood before the null handling was added
\* (`~column.in_(value)` when the list holds no None).
KwCondition_PlainNotIn(operator, attr, value) ==
    IF operator = "notin" /\ NULL \notin Range(AsList(value))
    THEN Not3(In3(attr.val, Range(AsList(value))))
    ELSE Condition(operator, attr, value)

\* apply_filters: the condition built for one keyword argument
KwCondition(operator, attr, value) ==
    LET c == attr.val
        v == value.items[1]
        items == AsList(value)
    IN CASE operator = "eq" -> Eq3(c, v)
         [] operator = "ne" -> Ne3(c, v)
         [] operator = "lt" -> Cmp3(c, v, TRUE, FALSE)
         [] operator = "lte" -> Cmp3(c, v, TRUE, TRUE)
         [] operator = "gt" -> Cmp3(c, v, FALSE, FALSE)
         [] operator = "gte" -> Cmp3(c, v, FALSE, TRUE)
         [] operator = "in" ->
              IF NULL \in Range(items)
              THEN Or3(In3(c, NonNull(items)), IsNull3(c))
              ELSE In3(c, Range(items))
         [] operator = "notin" ->
              IF NULL \in Range(items)
              THEN And3(Not3(In3(c, NonNull(items))), Not3(IsNull3(c)))
              ELSE Or3(IsNull3(c), Not3(In3(c, Range(items))))
         [] operator = "like" -> Like3(c, v)
         [] operator = "ilike" -> ILike3(c, v)
         [] operator = "lowerin" -> LowerIn3(c, items)
         [] operator = "exists" ->
              IF Truthy(value) THEN B3(attr.any) ELSE B3(~attr.any)
         [] OTHER -> "E"

\* ------------------------------------------------------------ Q and QGroup
\* One shape for both classes: t is "Q" or "QGroup"; a Q holds kwargs (a
\* sequence of [key, value]), a QGroup holds queries; connector is "and"/"or".
Q(kwargs) == [t |-> "Q", connector |-> "and", kwargs |-> kwargs, queries |-> <<>>]
QGroup(queries, connector) ==
    [t |-> "QGroup", connector |-> connector, kwargs |-> <<>>, queries |-> queries]

\* Q.__and__ / Q.__or__
Q_and(self, other) == QGroup(<<self, other>>, "and")
Q_or(self, other) == QGroup(<<self, other>>, "or")

\* QGroup.__and__ / QGroup.__or__
QGroup_and(self, other) ==
    IF self.connector = "and"
    THEN QGroup(self.queries \o (IF other.t = "QGroup" THEN other.queries
                                                       ELSE <<other>>), "and")
    ELSE QGroup(<<self, other>>, "and")

QGroup_or(self, other) ==
    IF self.connector = "or"
    THEN QGroup(self.queries \o (IF other.t = "QGroup" THEN other.queries
                                                       ELSE <<other>>), "or")
    ELSE QGroup(<<self, other>>, "or")

\* a & b and a | b: Python dispatches on the class of the left operand
AndOp(a, b) == IF a.t = "Q" THEN Q_and(a, b) ELSE QGroup_and(a, b)
OrOp(a, b) == IF a.t = "Q" THEN Q_or(a, b) ELSE QGroup_or(a, b)

RECURSIVE Leaves(_)
Leaves(f) == IF f.t = "Q" THEN 1
             ELSE IF f.queries = <<>> THEN 0
             ELSE Leaves(Head(f.queries))
                  + Leaves(QGroup(Tail(f.queries), f.connector))

\* ------------------------------------------------- aliases, joins, bindings
\* The root entity of a query is bound under ROOT; an alias made by
\* aliased(related_model) is bound under the relation name it is stored at
\* in the aliases dict (a sequence of [rel, cls], in insertion order).
ROOT == "$root"

HasAlias(aliases, rel) == \E i \in DOMAIN aliases : aliases[i].rel = rel
AliasClass(aliases, rel) ==
    aliases[CHOOSE i \in DOMAIN aliases : aliases[i].rel = rel].cls

\* the class behind current_model / current_cls
ClassOf(model, cur, aliases) ==
    IF cur = ROOT THEN model ELSE AliasClass(aliases, cur)

\* getattr(current_model, name) succeeds
HasAttr(cls, name) == name \in Columns(cls) \cup Relationships(cls)

\* the attribute `name` of row `row` of class cls, in database d
Attr(d, cls, row, name) ==
    IF name \in Columns(cls) THEN ColumnAttr(row[name])
    ELSE RelAttr(\E t \in d[RelTarget(cls, name)] : Related(cls, name, row, t))

\* INNER / LEFT OUTER JOIN of alias (class cls) ON the relationship rel of the
\* class pcls bound under parent
Join(alias, cls, parent, pcls, rel, outer) ==
    [alias |-> alias, cls |-> cls, parent |-> parent, pcls |-> pcls,
     rel |-> rel, outer |-> outer]

NullRow(cls) == [c \in Columns(cls) |-> NULL]

RECURSIVE JoinAll(_, _, _)
\* the joined rows: each a function from ROOT and the joined aliases to rows
JoinAll(d, joins, B) ==
    IF joins = <<>> THEN B
    ELSE LET j == Head(joins)
             ext(b) == {t \in d[j.cls] : Related(j.pcls, j.rel, b[j.parent], t)}
             step == UNION { IF ext(b) = {}
                             THEN (IF j.outer
                                   THEN {(j.alias :> NullRow(j.cls)) @@ b}
                                   ELSE {})
                             ELSE {(j.alias :> t) @@ b : t \in ext(b)} : b \in B }
         IN JoinAll(d, Tail(joins), step)

FromRoot(d, model) == {(ROOT :> r) : r \in d[model]}

\* joining one alias twice, joining the table of the root entity again
\* un-aliased, or ON a relationship that does not lead to the alias's class,
\* is rejected when the statement is compiled or executed
BadJoins(joins) ==
    \/ \E i, k \in DOMAIN joins : i < k /\ joins[i].alias = joins[k].alias
    \/ \E i, k \in DOMAIN joins :
          joins[k].parent = ROOT /\ joins[i].alias = joins[k].pcls
    \/ \E i \in DOMAIN joins : joins[i].cls # RelTarget(joins[i].pcls, joins[i].rel)

\* -------------------------------------------------------------- Q.build
\* the operators a branch of the if/elif chain builds a condition for; any
\* other operator reaches the final `raise ValueError`
handled_operators ==
    {"eq", "ne", "lt", "lte", "gt", "gte", "in", "notin", "like", "ilike",
     "lowerin", "exists"}

RECURSIVE WalkRelations(_, _, _, _)
\* Q.build, the loop over relations: [aliases, cur, cls, err]
WalkRelations(model, relations, cur, aliases) ==
    IF relations = <<>>
    THEN [aliases |-> aliases, cur |-> cur,
          cls |-> ClassOf(model, cur, aliases), err |-> "none"]
    ELSE LET relation == Head(relations)
             curCls == ClassOf(model, cur, aliases)
         IN IF ~HasAlias(aliases, relation)
            THEN IF relation \in Relationships(curCls)
                 THEN WalkRelations(model, Tail(relations), relation,
                        Append(aliases, [rel |-> relation,
                                         cls |-> RelTarget(curCls, relation)]))
                 ELSE [aliases |-> aliases, cur |-> cur, cls |-> curCls,
                       err |-> "AttributeError"]
            ELSE WalkRelations(model, Tail(relations), relation, aliases)

\* Q.build after the loop over relations: getattr(current_model, column)
\* and the operator's branch, for the split key p and the walk w
QColumn(p, w) ==
    [aliases |-> w.aliases, cur |-> w.cur, cls |-> w.cls,
     column |-> p.column, operator |-> p.operator,
     err |-> IF w.err # "none" THEN w.err
             ELSE IF ~HasAttr(w.cls, p.column) THEN "AttributeError"
             ELSE IF p.operator \notin handled_operators THEN "ValueError"
             ELSE "none"]

\* Q.build for one key of kwargs: the aliases after it, where its column
\* lives, and the error it raises ("none" if it raises nothing)
QKey(model, key, aliases) ==
    QColumn(ParseKey(Split(key, {"__"})),
            WalkRelations(model, ParseKey(Split(key, {"__"})).relations,
                          ROOT, aliases))

RECURSIVE BuildAliases(_, _, _)
\* Q.build / QGroup.build: the aliases dict after the build, and its error
BuildAliases(f, model, st) ==
    IF st.err # "none" THEN st
    ELSE IF f.t = "Q"
    THEN IF f.kwargs = <<>> THEN st
         ELSE BuildAliases(Q(Tail(f.kwargs)), model,
                [aliases |-> QKey(model, Head(f.kwargs).key, st.aliases).aliases,
                 err |-> QKey(model, Head(f.kwargs).key, st.aliases).err])
    ELSE IF f.queries = <<>> THEN st
         ELSE BuildAliases(QGroup(Tail(f.queries), f.connector), model,
                           BuildAliases(Head(f.queries), model, st))

\* and_(*conds) / or_(*conds) of the connector
Connect(connector, conds) ==
    IF connector = "and" THEN AndAll(conds) ELSE OrAll(conds)

\* the condition Q.build appends for the key resolved as k, on joined row b
QCondition(k, value, d, b) ==
    Condition(k.operator, Attr(d, k.cls, b[k.cur], k.column), value)

RECURSIVE Build(_, _, _, _, _)
\* Q.build / QGroup.build: the truth of the built clause on the joined row b,
\* given the aliases dict of the whole build
Build(f, model, aliases, d, b) ==
    IF f.t = "Q"
    THEN Connect(f.connector,
           [i \in DOMAIN f.kwargs |->
              QCondition(QKey(model, f.kwargs[i].key, aliases),
                         f.kwargs[i].value, d, b)])
    ELSE Connect(f.connector,
           [i \in DOMAIN f.queries |-> Build(f.queries[i], model, aliases, d, b)])

\* apply_filters, step 1: `query.join(alias, getattr(cls, relation))` for
\* every alias the build collected
QJoins(model, aliases) ==
    [i \in DOMAIN aliases |->
        Join(aliases[i].rel, aliases[i].cls, ROOT, model, aliases[i].rel, FALSE)]

\* getattr(cls, relation) of that loop fails
QJoinsError(model, aliases) ==
    \E i \in DOMAIN aliases : aliases[i].rel \notin Relationships(model)

NoFilter == QGroup(<<>>, "none")

\* apply_filters, `if filters:` -- the query after the Q phase, for the
\* result qb0 of filters.build: the Q object, its aliases dict, the joins
\* and WHERE conditions so far, the aliases dict as the kwargs loop goes on
\* using it, and the error raised
AfterQ(model, filters, qb0) ==
    [filters |-> filters, aliases |-> qb0.aliases,
     joins |-> QJoins(model, qb0.aliases), conds |-> <<>>,
     kwAliases |-> qb0.aliases,
     err |-> IF qb0.err # "none" THEN qb0.err
             ELSE IF QJoinsError(model, qb0.aliases) THEN "AttributeError"
             ELSE "none"]

\* ------------------------------------------------- apply_filters, **kwargs
RECURSIVE KwWalk(_, _, _, _, _)
\* the loop over relations of one keyword argument:
\* [aliases, joins, cur, cls, err]
KwWalk(model, relations, cur, aliases, joins) ==
    IF relations = <<>>
    THEN [aliases |-> aliases, joins |-> joins, cur |-> cur,
          cls |-> ClassOf(model, cur, aliases), err |-> "none"]
    ELSE LET relation == Head(relations)
             curCls == ClassOf(model, cur, aliases)
         IN IF relation = ""
            THEN [aliases |-> aliases, joins |-> joins, cur |-> cur,
                  cls |-> curCls, err |-> "ValueError"]
            ELSE IF relation \notin Relationships(curCls)
            THEN [aliases |-> aliases, joins |-> joins, cur |-> cur,
                  cls |-> curCls, err |-> "AttributeError"]
            ELSE IF ~HasAlias(aliases, relation)
            THEN KwWalk(model, Tail(relations), relation,
                   Append(aliases, [rel |-> relation,
                                    cls |-> RelTarget(curCls, relation)]),
                   Append(joins, Join(relation, RelTarget(curCls, relation),
                                      cur, curCls, relation, FALSE)))
            ELSE KwWalk(model, Tail(relations), relation, aliases,
                   Append(joins, Join(relation, AliasClass(aliases, relation),
                                      cur, curCls, relation, FALSE)))

\* the error one keyword argument raises, for its split key p and walk w
KwError(key, p, w) ==
    IF key = <<>> \/ p.column = "" THEN "ValueError"
    ELSE IF w.err # "none" THEN w.err
    ELSE IF ~HasAttr(w.cls, p.column) THEN "ValueError"
    ELSE IF p.operator \notin handled_operators THEN "ValueError"
    ELSE "none"

\* one keyword argument, after its loop over relations: the column and the
\* condition added to the query st
KwColumn(key, value, p, w, st) ==
    IF KwError(key, p, w) # "none" THEN [st EXCEPT !.err = KwError(key, p, w)]
    ELSE [st EXCEPT !.kwAliases = w.aliases,
                    !.joins = w.joins,
                    !.conds = Append(@, [cur |-> w.cur, cls |-> w.cls,
                                         column |-> p.column,
                                         operator |-> p.operator,
                                         value |-> value])]

\* one keyword argument: what it adds to the query st
KwKey(model, key, value, st) ==
    KwColumn(key, value, ParseKey(Split(key, {"__"})),
             KwWalk(model, ParseKey(Split(key, {"__"})).relations, ROOT,
                    st.kwAliases, st.joins),
             st)

RECURSIVE KwApply(_, _, _)
\* the loop over kwargs.items()
KwApply(model, kwargs, st) ==
    IF kwargs = <<>> \/ st.err # "none" THEN st
    ELSE KwApply(model, Tail(kwargs),
                 KwKey(model, Head(kwargs).key, Head(kwargs).value, st))

\* the truth of one keyword argument's WHERE clause on the joined row b
KwConditionAt(c, d, b) ==
    KwCondition(c.operator, Attr(d, c.cls, b[c.cur], c.column), c.value)

\* the truth of the kwargs' WHERE clauses (successive .where() are ANDed)
KwTruth(conds, d, b) ==
    AndAll([i \in DOMAIN conds |-> KwConditionAt(conds[i], d, b)])

\* apply_filters(query, cls, filters, **kwargs): the joins it adds to the
\* query, the WHERE clauses it adds, and the error it raises
apply_filters(model, filters, kwargs) ==
    KwApply(model, kwargs,
            AfterQ(model, filters,
                   IF filters = NoFilter THEN [aliases |-> <<>>, err |-> "none"]
                   ELSE BuildAliases(filters, model,
                                     [aliases |-> <<>>, err |-> "none"])))

\* the WHERE truth of an applied filter on a joined row
FilterTruth(af, model, d, b) ==
    And3(IF af.filters = NoFilter THEN "T"
         ELSE Build(af.filters, model, af.aliases, d, b),
         KwTruth(af.conds, d, b))

\* ---------------------------------------------------------- _apply_order_by
\* An ordering spec is a token sequence: "-amount" is <<"-", "amount">>,
\* "contact.first_name" is <<"contact", ".", "first_name">>.
RECURSIVE LStrip(_)
LStrip(e) == IF e # <<>> /\ Head(e) = " " THEN LStrip(Tail(e)) ELSE e
RECURSIVE RStrip(_)
RStrip(e) == IF e # <<>> /\ e[Len(e)] = " "
             THEN RStrip(SubSeq(e, 1, Len(e) - 1)) ELSE e
\* str.strip()
Strip(e) == RStrip(LStrip(e))

\* expr.replace(".", "__")
ReplaceDots(e) == [i \in DOMAIN e |-> IF e[i] = "." THEN "__" ELSE e[i]]

\* the table an un-aliased related class is joined as
EntityName(cls) == cls

\* `*relations_path, final_column_name = path_parts`
PathOf(descending, path_parts) ==
    [descending |-> descending,
     relations_path |-> SubSeq(path_parts, 1, Len(path_parts) - 1),
     final_column_name |-> path_parts[Len(path_parts)]]

\* startswith("-") on the stripped expression
StartsWithMinus(expr) == expr # <<>> /\ Head(expr) = "-"

\* an order_expr read with its "-" prefix dropped and never descending
OrderSpec_IgnoreSign(order_expr) ==
    PathOf(FALSE,
           Split(ReplaceDots(IF StartsWithMinus(Strip(order_expr))
                             THEN Tail(Strip(order_expr))
                             ELSE Strip(order_expr)), {"__"}))

\* one order_expr: descending, the relation chain and the final column
OrderSpec(order_expr) ==
    PathOf(StartsWithMinus(Strip(order_expr)),
           Split(ReplaceDots(IF StartsWithMinus(Strip(order_expr))
                             THEN Tail(Strip(order_expr))
                             ELSE Strip(order_expr)), {"__"}))

\* query.join(rel): the hop joined with an inner join
OrderJoin_Inner(target, cur, curCls, rel_name) ==
    Join(EntityName(target), target, cur, curCls, rel_name, FALSE)

\* query.outerjoin(rel): the related class un-aliased, ON the relationship
\* of current_model
OrderJoin(target, cur, curCls, rel_name) ==
    Join(EntityName(target), target, cur, curCls, rel_name, TRUE)

RECURSIVE OrderWalk(_, _, _, _)
\* the chained outer joins of one order_expr: [joins, cur, cls, err]
OrderWalk(curCls, cur, relations_path, joins) ==
    IF relations_path = <<>>
    THEN [joins |-> joins, cur |-> cur, cls |-> curCls, err |-> "none"]
    ELSE LET rel_name == Head(relations_path)
         IN IF rel_name \notin Relationships(curCls)
            THEN [joins |-> joins, cur |-> cur, cls |-> curCls,
                  err |-> "ValueError"]
            ELSE LET target == RelTarget(curCls, rel_name)
                 IN OrderWalk(target, EntityName(target), Tail(relations_path),
                      Append(joins, OrderJoin(target, cur, curCls, rel_name)))

\* one order_expr after its joins: the final column and asc / desc, added to
\* the ordering st = [joins, keys, err]; keys are [alias, column, desc]
OrderColumn(o, w, st) ==
    IF w.err # "none" THEN [st EXCEPT !.err = w.err]
    ELSE IF o.final_column_name \notin Columns(w.cls)
    THEN [st EXCEPT !.err = "ValueError"]
    ELSE [joins |-> w.joins,
          keys |-> Append(st.keys, [alias |-> w.cur,
                                    column |-> o.final_column_name,
                                    desc |-> o.descending]),
          err |-> "none"]

\* the body of the loop over order_by, for one order_expr
OrderKey(model, order_expr, st) ==
    OrderColumn(OrderSpec(order_expr),
                OrderWalk(model, ROOT, OrderSpec(order_expr).relations_path,
                          st.joins),
                st)

RECURSIVE OrderApply(_, _, _)
\* the loop over order_by
OrderApply(model, order_by, st) ==
    IF order_by = <<>> \/ st.err # "none" THEN st
    ELSE OrderApply(model, Tail(order_by), OrderKey(model, Head(order_by), st))

\* _apply_order_by(query, order_by); `if not order_by: return query`
apply_order_by(model, order_by, joins) ==
    OrderApply(model, order_by, [joins |-> joins, keys |-> <<>>, err |-> "none"])

\* `if order_by: .. elif paginate: _apply_order_by(query, "id")`
OrderOf(model, order_by, paginate, joins) ==
    IF order_by # <<>> THEN apply_order_by(model, order_by, joins)
    ELSE IF paginate THEN apply_order_by(model, << <<"id">> >>, joins)
    ELSE [joins |-> joins, keys |-> <<>>, err |-> "none"]

\* ------------------------------------------------------ statement execution
LexLess(u, v) ==
    \E i \in 1..Len(u) : u[i] < v[i] /\ \A j \in 1..(i - 1) : u[j] = v[j]

\* ORDER BY key of a joined row: ascending keys as they are, descending keys
\* negated (NULL sorts first ascending, last descending), then the storage
\* order of the rows, which decides among rows the ORDER BY leaves tied.
SortKey(b, keys, joins) ==
    [i \in DOMAIN keys |->
        IF keys[i].desc THEN 0 - b[keys[i].alias][keys[i].column]
                        ELSE b[keys[i].alias][keys[i].column]]
    \o <<b[ROOT].id>>
    \o [i \in DOMAIN joins |-> b[joins[i].alias].id]

\* the row of B that sorts first
FirstRow(B, keys, joins) ==
    CHOOSE x \in B : \A y \in B \ {x} :
        LexLess(SortKey(x, keys, joins), SortKey(y, keys, joins))

RECURSIVE SortRows(_, _, _)
SortRows(B, keys, joins) ==
    IF B = {} THEN <<>>
    ELSE LET m == FirstRow(B, keys, joins)
         IN <<m>> \o SortRows(B \ {m}, keys, joins)

\* .offset(offset).limit(limit)
Slice(rows, offset, limit) ==
    SubSeq(rows, offset + 1,
           IF offset + limit < Len(rows) THEN offset + limit ELSE Len(rows))

\* .scalars(): the root entity of every row, named by its primary key
Scalars(rows) == [i \in DOMAIN rows |-> rows[i][ROOT].id]

RECURSIVE Unique(_)
\* result.unique(): later duplicates dropped, first occurrences kept in order
Unique(ids) ==
    IF ids = <<>> THEN <<>>
    ELSE LET init == Unique(SubSeq(ids, 1, Len(ids) - 1))
             last == ids[Len(ids)]
         IN IF last \in Range(init) THEN init ELSE Append(init, last)

\* floor division of naturals
CeilPages(total_items, page_size) == (total_items + page_size - 1) \div page_size

\* ------------------------------------------------------------ responses
\* What an operation hands back: err is "none" or the exception raised;
\* items are primary keys; locals are the operator / column / relations the
\* key of a single-key filter was split into.
NoLocals == [operator |-> "", column |-> "", relations |-> <<>>]

Raised(e) == [err |-> e, items |-> <<>>, paginated |-> FALSE, page |-> 0,
              page_size |-> 0, total |-> 0, pages |-> 0, locals |-> NoLocals]

Listing(items) == [err |-> "none", items |-> items, paginated |-> FALSE,
                   page |-> 0, page_size |-> 0, total |-> 0, pages |-> 0,
                   locals |-> NoLocals]

PageOf(items, page, page_size, total, pages) ==
    [err |-> "none", items |-> items, paginated |-> TRUE, page |-> page,
     page_size |-> page_size, total |-> total, pages |-> pages,
     locals |-> NoLocals]

\* ------------------------------------------------------- BaseModel.filter
\* the joined rows of the statement that pass the WHERE clauses of af
FilterMatching(d, model, af, joins) ==
    {b \in JoinAll(d, joins, FromRoot(d, model)) :
        FilterTruth(af, model, d, b) = "T"}

\* filter, pagination branch: offset / limit on the ordered rows, unique(),
\* and the response dict
FilterPage(rows, page, page_size, total_items) ==
    PageOf(Unique(Scalars(Slice(rows, (page - 1) * page_size, page_size))),
           page, page_size, total_items,
           IF page_size > 0 THEN CeilPages(total_items, page_size) ELSE 0)

\* filter, executing the query with ordering ob; the count query is
\* select(func.count()).select_from(cls) with the same apply_filters
FilterExecute(d, model, af, ob, paginate, page, page_size) ==
    IF ob.err # "none" THEN Raised(ob.err)
    ELSE IF BadJoins(ob.joins) THEN Raised("RuntimeError")
    ELSE IF ~paginate
    THEN Listing(Unique(Scalars(
           SortRows(FilterMatching(d, model, af, ob.joins), ob.keys, ob.joins))))
    ELSE FilterPage(
           SortRows(FilterMatching(d, model, af, ob.joins), ob.keys, ob.joins),
           page, page_size,
           Cardinality(FilterMatching(d, model, af, af.joins)))

\* filter, from the filtered query af on
FilterQuery(d, model, af, order_by, paginate, page, page_size) ==
    IF af.err # "none" THEN Raised(af.err)
    ELSE FilterExecute(d, model, af,
                       OrderOf(model, order_by, paginate, af.joins),
                       paginate, page, page_size)

\* filter(db, filters=, order_by=, paginate=, page=, page_size=, **kwargs);
\* relations only add selectinload options, which join nothing.
BaseModel_filter(d, model, filters, kwargs, order_by, paginate, page, page_size) ==
    FilterQuery(d, model, apply_filters(model, filters, kwargs), order_by,
                paginate, page, page_size)

\* ------------------------------------------------- _apply_keyword_search
\* the name an alias made by keyword search is bound under (its aliases
\* dict is its own, apart from the one of apply_filters)
KwAliasName(rel) == IF rel = "contact" THEN "kw.contact"
                    ELSE IF rel = "incomes" THEN "kw.incomes" ELSE "kw"

RECURSIVE SearchWalk(_, _, _, _, _)
\* the loop over rels of one search field: [aliases, joins, cur, cls, err]
SearchWalk(curCls, cur, rels, aliases, joins) ==
    IF rels = <<>>
    THEN [aliases |-> aliases, joins |-> joins, cur |-> cur, cls |-> curCls,
          err |-> "none"]
    ELSE LET rel == Head(rels)
         IN IF HasAlias(aliases, rel)
            THEN SearchWalk(AliasClass(aliases, rel), KwAliasName(rel),
                            Tail(rels), aliases, joins)
            ELSE IF rel \notin Relationships(curCls)
            THEN [aliases |-> aliases, joins |-> joins, cur |-> cur,
                  cls |-> curCls, err |-> "AttributeError"]
            ELSE SearchWalk(RelTarget(curCls, rel), KwAliasName(rel), Tail(rels),
                   Append(aliases, [rel |-> rel, cls |-> RelTarget(curCls, rel)]),
                   Append(joins, Join(KwAliasName(rel), RelTarget(curCls, rel),
                                      cur, curCls, rel, FALSE)))

\* one search field after its loop over rels: getattr(current, col) and the
\* ilike condition, added to st = [aliases, joins, cols, err]
SearchColumn(col, w, st) ==
    IF w.err # "none" THEN [st EXCEPT !.err = w.err]
    ELSE IF col \notin Columns(w.cls) THEN [st EXCEPT !.err = "AttributeError"]
    ELSE [aliases |-> w.aliases, joins |-> w.joins,
          cols |-> Append(st.cols, [alias |-> w.cur, column |-> col]),
          err |-> "none"]

\* the body of the loop over search_fields, for the split field parts
SearchField(model, parts, st) ==
    SearchColumn(parts[Len(parts)],
                 SearchWalk(model, ROOT, SubSeq(parts, 1, Len(parts) - 1),
                            st.aliases, st.joins),
                 st)

RECURSIVE SearchFields(_, _, _)
\* the loop over search_fields
SearchFields(model, search_fields, st) ==
    IF search_fields = <<>> \/ st.err # "none" THEN st
    ELSE SearchFields(model, Tail(search_fields),
           SearchField(model, Split(Head(search_fields), {"__", "."}), st))

\* column.ilike(f"%{keyword}%")
KeywordILike(c, keyword) ==
    IF c = NULL THEN "U"
    ELSE B3(LikeMatch(Lower(Chars(c)),
                      Lower(<<"%">> \o Chars(keyword) \o <<"%">>)))

\* _apply_keyword_search(query, cls, keyword, search_fields)
apply_keyword_search(model, keyword, search_fields) ==
    IF keyword = NULL \/ search_fields = <<>>
    THEN [aliases |-> <<>>, joins |-> <<>>, cols |-> <<>>, err |-> "none"]
    ELSE SearchFields(model, search_fields,
           [aliases |-> <<>>, joins |-> <<>>, cols |-> <<>>, err |-> "none"])

\* the ilike condition of one search column on a joined row
KeywordAt(col, keyword, b) == KeywordILike(b[col.alias][col.column], keyword)

\* the truth of `or_(*conditions)` on a joined row
KeywordTruth(ks, keyword, b) ==
    OrAll([i \in DOMAIN ks.cols |-> KeywordAt(ks.cols[i], keyword, b)])

\* ------------------------------------------------------------------ _search
\* the joined rows of the statement that pass the keyword and the filters
SearchMatching(d, model, keyword, ks, af, joins) ==
    {b \in JoinAll(d, joins, FromRoot(d, model)) :
        And3(KeywordTruth(ks, keyword, b), FilterTruth(af, model, d, b)) = "T"}

\* the primary keys count_q counts: select(func.count(func.distinct(pk_col)))
\* with the keyword search and the filters applied
SearchCounted(d, model, keyword, ks, af) ==
    {b[ROOT].id : b \in SearchMatching(d, model, keyword, ks, af,
                                       ks.joins \o af.joins)}

\* _search, pagination branch
SearchPage(rows, page, page_size, total_items) ==
    PageOf(Unique(Scalars(Slice(rows, (page - 1) * page_size, page_size))),
           page, page_size, total_items,
           IF page_size # 0 THEN CeilPages(total_items, page_size) ELSE 0)

\* _search, executing the query with ordering ob
SearchExecute(d, model, keyword, ks, af, ob, paginate, page, page_size) ==
    IF ob.err # "none" THEN Raised("RuntimeError")
    ELSE IF BadJoins(ob.joins) THEN Raised("RuntimeError")
    ELSE IF ~paginate
    THEN Listing(Scalars(
           SortRows(SearchMatching(d, model, keyword, ks, af, ob.joins),
                    ob.keys, ob.joins)))
    ELSE SearchPage(
           SortRows(SearchMatching(d, model, keyword, ks, af, ob.joins),
                    ob.keys, ob.joins),
           page, page_size,
           Cardinality(SearchCounted(d, model, keyword, ks, af)))

\* _search, from the keyword-searched and filtered query on
SearchQuery(d, model, keyword, ks, af, order_by, paginate, page, page_size) ==
    IF ks.err # "none" \/ af.err # "none" THEN Raised("RuntimeError")
    ELSE SearchExecute(d, model, keyword, ks, af,
                       OrderOf(model, order_by, paginate, ks.joins \o af.joins),
                       paginate, page, page_size)

\* search(db, keyword=, search_fields=, order_by=, paginate=, page=,
\* page_size=, **kwargs); every exception is re-raised as RuntimeError
BaseModel_search(d, model, keyword, search_fields, order_by, paginate, page, page_size, kwargs) ==
    SearchQuery(d, model, keyword,
                apply_keyword_search(model, keyword, search_fields),
                apply_filters(model, NoFilter, kwargs),
                order_by, paginate, page, page_size)

\* ------------------------------------------------------ instances and dicts
\* A Python dict of attribute values is a sequence of [key, value] pairs in
\* insertion order, its keys attribute names; a later pair of the same key
\* is the one a lookup sees.
Keys(data) == {data[i].key : i \in DOMAIN data}

\* data[name]
Lookup(data, name) ==
    data[CHOOSE i \in DOMAIN data :
            /\ data[i].key = name
            /\ \A k \in DOMAIN data : data[k].key = name => k <= i].value

\* data.get(name, None)
Get(data, name) == IF name \in Keys(data) THEN Lookup(data, name) ELSE NULL

\* the attribute name a keyword argument is passed under: a key of one
\* segment is that segment, a key with a separator names no column
KeywordName(key) == IF Len(key) = 1 THEN key[1] ELSE "__"

\* **kwargs of a call as a dict of its scalar values
KwargsDict(kwargs) ==
    [i \in DOMAIN kwargs |->
        [key |-> KeywordName(kwargs[i].key), value |-> kwargs[i].value.items[1]]]

\* cls(**data) on the Income table model: the given columns as given (keys
\* that name no column are dropped without validation), id from its
\* default_factory uuid4 (fresh), created_at from datetime.now, every other
\* column unset -- stored as NULL
Instantiate(data, fresh, now) ==
    [c \in Columns("Income") |->
        IF c \in Keys(data) THEN Lookup(data, c)
        ELSE IF c = "id" THEN fresh
        ELSE IF c = "created_at" THEN now
        ELSE NULL]

\* a model instance built by the caller as Income(**supplied): the row it
\* holds and model_fields_set
Construct(supplied, fresh, now) ==
    [row |-> Instantiate(supplied, fresh, now),
     fields_set |-> Keys(supplied) \cap Columns("Income")]

\* the fields an instance holds a value for: those given and those with a
\* default or default_factory
FieldsHeld(obj) == obj.fields_set \cup {"id", "created_at"}

\* the fields of the model in the order they are declared
FieldOrder == <<"id", "contact_id", "amount", "description", "created_at">>

RECURSIVE DumpFields(_, _, _)
\* the dict of the fields in keep, in declaration order
DumpFields(fields, obj, keep) ==
    IF fields = <<>> THEN <<>>
    ELSE (IF Head(fields) \in keep
          THEN <<[key |-> Head(fields), value |-> obj.row[Head(fields)]]>>
          ELSE <<>>)
         \o DumpFields(Tail(fields), obj, keep)

\* obj.model_dump(exclude_unset=True) / obj.model_dump()
model_dump(obj, exclude_unset) ==
    DumpFields(FieldOrder, obj,
               IF exclude_unset THEN obj.fields_set ELSE FieldsHeld(obj))

RECURSIVE SetAttrs(_, _, _)
\* `for field, value in data.items(): setattr(obj, field, value)`, the
\* fields in skip passed over
SetAttrs(row, data, skip) ==
    IF data = <<>> THEN row
    ELSE SetAttrs(IF Head(data).key \in skip THEN row
                  ELSE [row EXCEPT ![Head(data).key] = Head(data).value],
                  Tail(data), skip)

\* the smallest primary key no row of the table carries (a fresh uuid4)
FreshId(table) ==
    CHOOSE k \in 1..(Cardinality(table) + 1) :
        /\ \A r \in table : r.id # k
        /\ \A j \in 1..(k - 1) : \E r \in table : r.id = j

\* what a write operation hands back: the table after it, the instance
\* returned (NULL if none), whether it inserted, and the error raised
Wrote(table, item, created) ==
    [table |-> table, item |-> item, created |-> created, err |-> "none"]

Failed(table, e) ==
    [table |-> table, item |-> NULL, created |-> FALSE, err |-> e]

\* ----------------------------------------------------------- BaseModel.get
\* `result.scalars().first()` of the filtered query: the first row in
\* storage order; found is FALSE, and item NULL, for None
First(rows) ==
    [found |-> rows # <<>>,
     item |-> IF rows = <<>> THEN NULL ELSE rows[1][ROOT], err |-> "none"]

\* get raised e
GetRaised(e) == [found |-> FALSE, item |-> NULL, err |-> e]

\* get, from the filtered query af on
GetQuery(d, model, af) ==
    IF af.err # "none" THEN GetRaised(af.err)
    ELSE IF BadJoins(af.joins) THEN GetRaised("RuntimeError")
    ELSE First(SortRows(FilterMatching(d, model, af, af.joins), <<>>, af.joins))

\* get(db, **kwargs)
BaseModel_get(d, model, kwargs) ==
    GetQuery(d, model, apply_filters(model, NoFilter, kwargs))

\* ------------------------------------------------- BaseModel.get_or_create
\* get_or_create after cls.get returned got: `if item: return item`, else
\* `data = {**kwargs, **defaults}; new_obj = cls(**data); db.add(new_obj)`
GetOrCreateFrom(table, got, data, now) ==
    IF got.err # "none" THEN Failed(table, got.err)
    ELSE IF got.found THEN Wrote(table, got.item, FALSE)
    ELSE IF \E r \in table : r.id = Instantiate(data, FreshId(table), now).id
    THEN Failed(table, "IntegrityError")
    ELSE Wrote(table \cup {Instantiate(data, FreshId(table), now)},
               Instantiate(data, FreshId(table), now), TRUE)

\* get_or_create(db, defaults=defaults, **kwargs) on Income
get_or_create(d, kwargs, defaults, now) ==
    GetOrCreateFrom(d.Income, BaseModel_get(d, "Income", kwargs),
                    KwargsDict(kwargs) \o defaults, now)

\* ----------------------------------------------- BaseModel.create_or_update
\* the branch taken when no row carries the id: `new_obj = cls(**obj_data)`
InsertNew(table, obj_data, now) ==
    Wrote(table \cup {Instantiate(obj_data, FreshId(table), now)},
          Instantiate(obj_data, FreshId(table), now), TRUE)

\* the branch taken for existing_obj: setattr of every field of obj_data
UpdateExisting(table, existing_obj, obj_data) ==
    Wrote((table \ {existing_obj}) \cup {SetAttrs(existing_obj, obj_data, {})},
          SetAttrs(existing_obj, obj_data, {}), FALSE)

\* create_or_update without the lookup of the existing row
create_or_update_NoLookup(table, obj_data, now) == InsertNew(table, obj_data, now)

\* create_or_update(db, obj_in), obj_data the dict of obj_in
create_or_update(table, obj_data, now) ==
    IF Get(obj_data, "id") # NULL
       /\ \E r \in table : r.id = Get(obj_data, "id")
    THEN UpdateExisting(table,
                        CHOOSE r \in table : r.id = Get(obj_data, "id"),
                        obj_data)
    ELSE InsertNew(table, obj_data, now)

\* -------------------------------------------------------- BaseModel.update
\* update(db, db_obj, obj_in), update_data the dict of obj_in; pk_keys is
\* {"id"}
BaseModel_update(table, db_obj, update_data) ==
    Wrote((table \ {db_obj}) \cup {SetAttrs(db_obj, update_data, {"id"})},
          SetAttrs(db_obj, update_data, {"id"}), FALSE)

\* ------------------------------------------------------------ idle values
IdleDb == [Income |-> {}, Contact |-> ContactRows]
IdleReq == [op |-> "none"]
IdleResp == Raised("none")
IdlePrev == [req |-> IdleReq, resp |-> IdleResp]

\* a session with nothing committed and no operation made
IdleSession ==
    [durable |-> {}, before |-> {}, state |-> "active",
     commits |-> 0, flushes |-> 0, rollbacks |-> 0, failed |-> "none",
     refreshed |-> 0]

\* None where a dict or an instance built from a dict is expected
NoDict == [ok |-> FALSE]

\* the serializer before any serialize call: no entity graph in memory, no
\* output object built, nothing read, no instance visited a second time
IdleSer ==
    [graph |-> <<>>, source |-> <<>>, visited |-> {}, instance_cache |-> <<>>,
     objs |-> <<>>,
     writes |-> <<>>, reads |-> {}, fetched |-> {}, diverged |-> FALSE,
     error |-> "none", op |-> "none", cls |-> "none", roots |-> <<>>,
     pending |-> {}, results |-> <<>>, dict |-> NoDict, instance |-> NoDict,
     visits |-> <<>>]

\* page and page_size when the caller gives none
DefaultPage == 1
DefaultPageSize == 10

RECURSIVE SetToSeq(_)
SetToSeq(S) == IF S = {} THEN <<>>
               ELSE LET m == CHOOSE x \in S : \A y \in S : x <= y
                    IN <<m>> \o SetToSeq(S \ {m})

\* Income tables of n rows with primary keys 1..n, their columns drawn from
\* the given sets
IncomeTables(n, contactIds, amounts, descriptions) ==
    { {[id |-> i, contact_id |-> f[i].contact_id, amount |-> f[i].amount,
        description |-> f[i].description, created_at |-> 0] : i \in 1..n} :
      f \in [1..n -> [contact_id : contactIds, amount : amounts,
                      description : descriptions]] }

\* =========================================================================
\* Composition of filter objects: Q.__and__, Q.__or__, QGroup.__and__,
\* QGroup.__or__ (specification SpecQ)
\* =========================================================================
QAtoms == { Q(<< [key |-> <<"amount">>, value |-> Scalar(1)] >>),
            Q(<< [key |-> <<"contact_id", "__", "in">>,
                  value |-> List(<<NULL, 1>>)] >>) }

InitQ ==
    /\ db = IdleDb /\ pre = IdleDb /\ req = IdleReq /\ resp = IdleResp
    /\ prev = IdlePrev /\ clock = 0
    /\ session = IdleSession /\ ser = IdleSer
    /\ qa \in QAtoms /\ qb \in QAtoms
    /\ qc = NoFilter /\ qop = "none"

\* Q(**kwargs) assigned to one of the two operands
NewQ ==
    \E atom \in QAtoms, left \in BOOLEAN :
        /\ Leaves(IF left THEN qb ELSE qa) + 1 <= MaxLeaves
        /\ qa' = IF left THEN atom ELSE qa
        /\ qb' = IF left THEN qb ELSE atom
        /\ qop' = "none"
        /\ UNCHANGED <<db, pre, req, resp, qc, prev, clock, session, ser>>

\* operand & Q(..) or operand | Q(..) assigned back to the operand
ExtendQ ==
    \E atom \in QAtoms, left \in BOOLEAN, conj \in BOOLEAN :
        LET old == IF left THEN qa ELSE qb
            new == IF conj THEN AndOp(old, atom) ELSE OrOp(old, atom)
        IN /\ Leaves(qa) + Leaves(qb) + 1 <= MaxLeaves
           /\ qa' = IF left THEN new ELSE qa
           /\ qb' = IF left THEN qb ELSE new
           /\ qop' = "none"
           /\ UNCHANGED <<db, pre, req, resp, qc, prev, clock, session, ser>>

\* qc = qa & qb
CombineAnd ==
    /\ Leaves(qa) + Leaves(qb) <= MaxLeaves
    /\ qc' = AndOp(qa, qb)
    /\ qop' = "and"
    /\ UNCHANGED <<db, pre, req, resp, qa, qb, prev, clock, session, ser>>

\* qc = qa | qb
CombineOr ==
    /\ Leaves(qa) + Leaves(qb) <= MaxLeaves
    /\ qc' = OrOp(qa, qb)
    /\ qop' = "or"
    /\ UNCHANGED <<db, pre, req, resp, qa, qb, prev, clock, session, ser>>

NextQ == NewQ \/ ExtendQ \/ CombineAnd \/ CombineOr

SpecQ == InitQ /\ [][NextQ]_vars

\* the Income rows a built predicate is probed on
ProbeRows == [id : {1}, contact_id : {NULL, 1, 2}, amount : {NULL, 1, 2},
              description : {NULL}, created_at : {0}]

\* the predicate built from f is satisfied by row r
Satisfies(f, r) ==
    Build(f, "Income",
          BuildAliases(f, "Income", [aliases |-> <<>>, err |-> "none"]).aliases,
          IdleDb, (ROOT :> r)) = "T"

IntVals == {NULL, 1, 2}
FilterLists == {List(SetToSeq(S)) : S \in SUBSET IntVals}

FilterArgs(model) ==
    IF model = "Income"
    THEN {[key |-> k, value |-> Scalar(v)] :
             k \in { <<"amount">>, <<"amount", "__", "eq">>,
                     <<"amount", "__", "ne">>, <<"amount", "__", "lt">>,
                     <<"amount", "__", "lte">>, <<"amount", "__", "gt">>,
                     <<"amount", "__", "gte">>, <<"amount", "__", "date">>,
                     <<"contact", "__", "id">>, <<"nope">>,
                     <<"nope", "__", "id">>,
                     <<"contact", "__", "incomes", "__", "amount">> },
             v \in IntVals}
         \cup {[key |-> <<c, "__", o>>, value |-> l] :
                 c \in {"amount", "contact_id"}, o \in {"in", "notin"},
                 l \in FilterLists}
         \cup {[key |-> <<"description", "__", o>>, value |-> Scalar(t)] :
                 o \in {"like", "ilike"}, t \in {Text(1), Text(4)}}
         \cup {[key |-> <<"description", "__", "lowerin">>,
                value |-> List(<<Text(1), Text(2)>>)],
               [key |-> <<"contact", "__", "first_name", "__", "ilike">>,
                value |-> Scalar(Text(4))]}
    ELSE {[key |-> <<"incomes", "__", "exists">>, value |-> Scalar(v)] :
             v \in {0, 1}}
         \cup {[key |-> <<"incomes", "__", "amount", "__", "gte">>,
                value |-> Scalar(v)] : v \in {1, 2}}
         \cup {[key |-> <<"first_name">>, value |-> Scalar(Text(3))]}

FilterTables ==
    UNION {IncomeTables(n, {NULL, 1}, IntVals, {Text(2)}) :
              n \in 0..MaxIncomes}

InitFilter ==
    /\ db \in {[Income |-> t, Contact |-> ContactRows] : t \in FilterTables}
    /\ pre = IdleDb /\ req = IdleReq /\ resp = IdleResp
    /\ prev = IdlePrev /\ clock = 0
    /\ session = IdleSession /\ ser = IdleSer
    /\ qa = NoFilter /\ qb = NoFilter /\ qc = NoFilter /\ qop = "none"

\* cls.filter(db, **{key: value})
FilterKwargs ==
    \E model \in Classes : \E a \in FilterArgs(model) :
        /\ req = IdleReq
        /\ req' = [op |-> "filter", form |-> "kwargs", cls |-> model,
                   key |-> a.key, value |-> a.value]
        /\ resp' = [BaseModel_filter(db, model, NoFilter, <<a>>, <<>>, FALSE,
                                     DefaultPage, DefaultPageSize)
                      EXCEPT !.locals = ParseKey(Split(a.key, {"__"}))]
        /\ UNCHANGED <<db, pre, qa, qb, qc, qop, prev, clock, session, ser>>

\* cls.filter(db, filters=Q(**{key: value}))
FilterQ ==
    \E model \in Classes : \E a \in FilterArgs(model) :
        /\ req = IdleReq
        /\ req' = [op |-> "filter", form |-> "Q", cls |-> model,
                   key |-> a.key, value |-> a.value]
        /\ resp' = [BaseModel_filter(db, model, Q(<<a>>), <<>>, <<>>, FALSE,
                                     DefaultPage, DefaultPageSize)
                      EXCEPT !.locals = ParseKey(Split(a.key, {"__"}))]
        /\ UNCHANGED <<db, pre, qa, qb, qc, qop, prev, clock, session, ser>>

NextFilter == FilterKwargs \/ FilterQ

SpecFilter == InitFilter /\ [][NextFilter]_vars

\* the request is a filter on cls with a list value under operator o
ListFilter(o) ==
    /\ req.op = "filter" /\ req.cls = "Income"
    /\ req.value.isList
    /\ resp.locals.operator = o
    /\ resp.locals.column \in {"amount", "contact_id"}

\* C1: field__in=V with a null marker in V matches a row iff its column is
\* null or equals a non-null member of V; field__notin=V with no null marker
\* in V matches every row whose column is null or not in V and no row whose
\* column is in V -- in the Q form and in the keyword-argument form.
C1_NullAwareInNotIn ==
    /\ (ListFilter("in") /\ NULL \in Range(req.value.items)) =>
          /\ resp.err = "none"
          /\ Range(resp.items) =
               {r.id : r \in {x \in db.Income :
                    \/ x[resp.locals.column] = NULL
                    \/ x[resp.locals.column] \in Range(req.value.items) \ {NULL}}}
    /\ (ListFilter("notin") /\ NULL \notin Range(req.value.items)) =>
          /\ resp.err = "none"
          /\ Range(resp.items) =
               {r.id : r \in {x \in db.Income :
                    \/ x[resp.locals.column] = NULL
                    \/ x[resp.locals.column] \notin Range(req.value.items)}}

\* a notin filter without a null marker returned a row whose column is null,
\* and an in filter with a null marker did so as well
C1_Witness ==
    /\ ListFilter("notin") /\ NULL \notin Range(req.value.items)
    /\ req.value.items # <<>>
    /\ req.form = "kwargs"
    /\ \E r \in db.Income : r.amount = NULL /\ r.id \in Range(resp.items)
    /\ \E r \in db.Income : r.amount # NULL /\ r.id \notin Range(resp.items)

\* the operators the key grammar names
ClaimedOperators ==
    {"eq", "ne", "lt", "lte", "gt", "gte", "in", "notin", "like", "ilike",
     "lowerin", "exists"}

MaxSearchRows == 3

SearchTables ==
    UNION {IncomeTables(n, {NULL, 1}, {1, 2}, {Text(1), Text(3)}) :
              n \in 0..MaxSearchRows}

Keywords == {NULL, Text(1), Text(3)}

SearchFieldLists(model) ==
    IF model = "Income"
    THEN { <<>>,
           << <<"description">> >>,
           << <<"description">>, <<"contact", "__", "first_name">> >>,
           << <<"contact", ".", "first_name">> >>,
           << <<"contact", ".", "nope">> >> }
    ELSE { << <<"first_name">> >>,
           << <<"first_name">>, <<"incomes", "__", "description">> >> }

SearchKwargs(model) ==
    IF model = "Income"
    THEN { <<>>,
           << [key |-> <<"amount", "__", "gte">>, value |-> Scalar(2)] >>,
           << [key |-> <<"contact", "__", "id">>, value |-> Scalar(1)] >> }
    ELSE { <<>>,
           << [key |-> <<"incomes", "__", "amount", "__", "gte">>,
               value |-> Scalar(1)] >> }

\* paginate / page / page_size as the caller may give them
Pagings ==
    {[paginate |-> FALSE, page |-> DefaultPage, page_size |-> DefaultPageSize]}
    \cup [paginate : {TRUE}, page : 1..MaxPage, page_size : 1..MaxPageSize]

InitSearch ==
    /\ db \in {[Income |-> t, Contact |-> ContactRows] : t \in SearchTables}
    /\ pre = IdleDb /\ req = IdleReq /\ resp = IdleResp
    /\ prev = IdlePrev /\ clock = 0
    /\ session = IdleSession /\ ser = IdleSer
    /\ qa = NoFilter /\ qb = NoFilter /\ qc = NoFilter /\ qop = "none"

\* cls.search(db, keyword=, search_fields=, paginate=, page=, page_size=, **kwargs)
Search ==
    \E model \in Classes, keyword \in Keywords, pg \in Pagings :
    \E fields \in SearchFieldLists(model), kwargs \in SearchKwargs(model) :
        /\ req = IdleReq
        /\ req' = [op |-> "search", cls |-> model, keyword |-> keyword,
                   search_fields |-> fields, kwargs |-> kwargs,
                   order_by |-> <<>>, paginate |-> pg.paginate,
                   page |-> pg.page, page_size |-> pg.page_size]
        /\ resp' = BaseModel_search(db, model, keyword, fields, <<>>,
                                    pg.paginate, pg.page, pg.page_size, kwargs)
        /\ UNCHANGED <<db, pre, qa, qb, qc, qop, prev, clock, session, ser>>

\* cls.filter(db, paginate=True, page=, page_size=, **kwargs)
FilterPaged ==
    \E model \in Classes, pg \in Pagings : \E kwargs \in SearchKwargs(model) :
        /\ req = IdleReq
        /\ pg.paginate
        /\ req' = [op |-> "filter", cls |-> model, keyword |-> NULL,
                   search_fields |-> <<>>, kwargs |-> kwargs,
                   order_by |-> <<>>, paginate |-> TRUE,
                   page |-> pg.page, page_size |-> pg.page_size]
        /\ resp' = BaseModel_filter(db, model, NoFilter, kwargs, <<>>, TRUE,
                                    pg.page, pg.page_size)
        /\ UNCHANGED <<db, pre, qa, qb, qc, qop, prev, clock, session, ser>>

NextSearch == Search \/ FilterPaged

SpecSearch == InitSearch /\ [][NextSearch]_vars

\* text c contains keyword k, case-insensitively
Contains(c, k) ==
    /\ c # NULL
    /\ LET s == Lower(Chars(c))
           w == Lower(Chars(k))
       IN \E i \in 1..(Len(s) + 1) :
             /\ i + Len(w) - 1 <= Len(s)
             /\ SubSeq(s, i, i + Len(w) - 1) = w

RECURSIVE Reach(_, _, _, _)
\* the rows reached from the rows of class cls by following rels
Reach(d, cls, rows, rels) ==
    IF rels = <<>> THEN rows
    ELSE Reach(d, RelTarget(cls, Head(rels)),
               {t \in d[RelTarget(cls, Head(rels))] :
                   \E p \in rows : Related(cls, Head(rels), p, t)},
               Tail(rels))

\* entity r has keyword k in the (own or relation-qualified) field
FieldContains(d, model, r, field, k) ==
    LET parts == Split(field, {"__", "."})
    IN \E t \in Reach(d, model, {r}, SubSeq(parts, 1, Len(parts) - 1)) :
          Contains(t[parts[Len(parts)]], k)

\* entity r, joined to its related rows, passes the applied filter af
SatisfiesFilter(d, model, r, af) ==
    \E b \in JoinAll(d, af.joins, {(ROOT :> r)}) :
       FilterTruth(af, model, d, b) = "T"

\* entity r satisfies the keyword arguments of the request
SatisfiesKwargs(d, model, r, kwargs) ==
    SatisfiesFilter(d, model, r, apply_filters(model, NoFilter, kwargs))

\* C4: search(keyword=k, search_fields=F, **filters) returns exactly the
\* entities that satisfy the filters and have k, case-insensitively, in at
\* least one field of F -- also an entity that matches on an own field and
\* has no related row for a relation-qualified field of F.
C4_SearchExact ==
    (/\ req.op = "search" /\ ~req.paginate /\ resp.err = "none"
     /\ req.keyword # NULL /\ req.search_fields # <<>>) =>
       Range(resp.items) =
         {r.id : r \in {x \in db[req.cls] :
            /\ SatisfiesKwargs(db, req.cls, x, req.kwargs)
            /\ \E i \in DOMAIN req.search_fields :
                  FieldContains(db, req.cls, x, req.search_fields[i],
                                req.keyword)}}

\* the primary keys of the entities that pass the WHERE clauses of the
\* request's item query
MatchingIds ==
    SearchCounted(db, req.cls, req.keyword,
                  apply_keyword_search(req.cls, req.keyword, req.search_fields),
                  apply_filters(req.cls, NoFilter, req.kwargs))

Ceiling(n, k) == CHOOSE c \in 0..n : c * k >= n /\ (c = 0 \/ (c - 1) * k < n)

Min(x, y) == IF x < y THEN x ELSE y

\* the response is the requested page of the list ordered
IsPageOf(ordered) ==
    /\ resp.pages = Ceiling(Len(ordered), req.page_size)
    /\ resp.items = SubSeq(ordered, (req.page - 1) * req.page_size + 1,
                           Min(req.page * req.page_size, Len(ordered)))

\* C5: paginated search and filter return pages = ceiling(total / page_size)
\* and, as items, the entities at positions (page-1)*page_size+1 ..
\* min(page*page_size, total) of the ordered list of distinct matching
\* entities.
C5_PageSlice ==
    (req.op \in {"search", "filter"} /\ req.paginate /\ resp.err = "none") =>
       IsPageOf(SetToSeq(MatchingIds))

\* C6: in pagination mode total is the number of distinct entities that
\* satisfy the keyword and filter predicates of the item query.
C6_TotalDistinct ==
    (req.op \in {"search", "filter"} /\ req.paginate /\ resp.err = "none") =>
       resp.total = Cardinality(MatchingIds)


\* =========================================================================
\* Ordered filter and search (specification SpecOrder): one database and
\* one request with order_by on it
\* =========================================================================
OrderTables ==
    UNION {IncomeTables(n, {1, 2}, {1, 2}, {Text(1), Text(3)}) :
              n \in 0..MaxOrderRows}

\* the order_expr strings a caller passes
OrderExprs ==
    { <<"amount">>, <<"-", "amount">>, <<"description">>,
      <<"-", "description">>, <<"contact", ".", "first_name">>,
      <<"-", "contact", "__", "first_name">> }

\* order_by as a single string, as a list of two, and naming no column
OrderLists ==
    {<<s>> : s \in OrderExprs}
    \cup {<<s, t>> : s \in OrderExprs, t \in OrderExprs}
    \cup { << <<"nope">> >>, << <<"nope", ".", "amount">> >> }

InitOrder ==
    /\ db \in {[Income |-> t, Contact |-> ContactRows] : t \in OrderTables}
    /\ pre = IdleDb /\ req = IdleReq /\ resp = IdleResp
    /\ prev = IdlePrev /\ clock = 0
    /\ session = IdleSession /\ ser = IdleSer
    /\ qa = NoFilter /\ qb = NoFilter /\ qc = NoFilter /\ qop = "none"

\* Income.filter(db, order_by=order_by)
FilterOrdered ==
    \E order_by \in OrderLists :
        /\ req = IdleReq
        /\ req' = [op |-> "filter", cls |-> "Income", order_by |-> order_by]
        /\ resp' = BaseModel_filter(db, "Income", NoFilter, <<>>, order_by,
                                    FALSE, DefaultPage, DefaultPageSize)
        /\ UNCHANGED <<db, pre, prev, clock, qa, qb, qc, qop, session, ser>>

\* Income.search(db, order_by=order_by)
SearchOrdered ==
    \E order_by \in OrderLists :
        /\ req = IdleReq
        /\ req' = [op |-> "search", cls |-> "Income", order_by |-> order_by]
        /\ resp' = BaseModel_search(db, "Income", NULL, <<>>, order_by, FALSE,
                                    DefaultPage, DefaultPageSize, <<>>)
        /\ UNCHANGED <<db, pre, prev, clock, qa, qb, qc, qop, session, ser>>

NextOrder == FilterOrdered \/ SearchOrdered

SpecOrder == InitOrder /\ [][NextOrder]_vars

\* an ordering spec as the caller reads it: a leading "-" asks for
\* descending order; the rest names a column of the entity or, after a
\* relation name and a separator, a column of the related contact
Descending(s) == Head(s) = "-"

SortValue(d, r, s) ==
    IF Len(s) > 2
    THEN (CHOOSE c \in d.Contact : c.id = r.contact_id)[s[Len(s)]]
    ELSE r[s[Len(s)]]

\* under the specs L from position i on, r1 may come before r2
RECURSIVE MayPrecede(_, _, _, _, _)
MayPrecede(d, r1, r2, L, i) ==
    IF i > Len(L) THEN TRUE
    ELSE IF SortValue(d, r1, L[i]) = SortValue(d, r2, L[i])
         THEN MayPrecede(d, r1, r2, L, i + 1)
    ELSE IF Descending(L[i])
         THEN SortValue(d, r1, L[i]) > SortValue(d, r2, L[i])
         ELSE SortValue(d, r1, L[i]) < SortValue(d, r2, L[i])

\* the Income row with primary key k
IncomeRow(k) == CHOOSE r \in db.Income : r.id = k

\* C7: for a list of ordering specs [s1, .., sn] the returned sequence is
\* sorted lexicographically -- by s1, ties broken by s2, and so on -- a spec
\* with a leading "-" descending, any other ascending.
C7_LexOrder ==
    (req.op \in {"filter", "search"} /\ resp.err = "none") =>
       /\ Range(resp.items) = {r.id : r \in db.Income}
       /\ \A i, j \in DOMAIN resp.items :
             i < j => MayPrecede(db, IncomeRow(resp.items[i]),
                                 IncomeRow(resp.items[j]), req.order_by, 1)

\* ["-amount", "description"] returned three rows, two of them tied on
\* amount and told apart by description, in an order that is not the
\* storage order
C7_Witness ==
    /\ req.op = "filter" /\ resp.err = "none"
    /\ req.order_by = << <<"-", "amount">>, <<"description">> >>
    /\ Len(resp.items) = 3
    /\ IncomeRow(resp.items[1]).amount > IncomeRow(resp.items[3]).amount
    /\ \E i \in 1..2 :
          /\ IncomeRow(resp.items[i]).amount = IncomeRow(resp.items[i + 1]).amount
          /\ IncomeRow(resp.items[i]).description
               < IncomeRow(resp.items[i + 1]).description
          /\ resp.items[i] > resp.items[i + 1]

\* =========================================================================
\* get_or_create, create_or_update and update on the Income table
\* (specification SpecCrud).  clock counts the operations and is the time
\* datetime.now returns; prev is the request and response before the last.
\* =========================================================================
Pair(k, v) == [key |-> k, value |-> v]

\* **kwargs and defaults= of get_or_create
GetOrCreateKwargs ==
    { << [key |-> <<"amount">>, value |-> Scalar(1)] >>,
      << [key |-> <<"description">>, value |-> Scalar(Text(1))] >>,
      << [key |-> <<"amount", "__", "gte">>, value |-> Scalar(1)] >> }

GetOrCreateDefaults ==
    { <<>>, <<Pair("description", Text(3))>>, <<Pair("amount", 2)>> }

\* the attributes create_or_update is given, with and without an id
UpsertInputs ==
    {<<Pair("amount", a)>> : a \in {1, 2}}
    \cup {<<Pair("id", k), Pair("amount", a)>> : k \in {1, 2}, a \in {1, 2}}

\* the attributes update is given, with and without an id
UpdateInputs ==
    { <<Pair("amount", 2)>>, <<Pair("description", Text(1))>>,
      <<Pair("id", 2), Pair("amount", 1)>> }

InitCrud ==
    /\ db = IdleDb /\ pre = IdleDb /\ req = IdleReq /\ resp = IdleResp
    /\ prev = IdlePrev /\ clock = 0
    /\ session = IdleSession /\ ser = IdleSer
    /\ qa = NoFilter /\ qb = NoFilter /\ qc = NoFilter /\ qop = "none"

\* the state after an operation that handed back out
Done(request, out) ==
    /\ clock' = clock + 1
    /\ pre' = db
    /\ prev' = [req |-> req, resp |-> resp]
    /\ req' = request
    /\ resp' = [err |-> out.err, item |-> out.item, created |-> out.created]
    /\ db' = [db EXCEPT !.Income = out.table]
    /\ UNCHANGED <<qa, qb, qc, qop, session, ser>>

\* Income.get_or_create(db, defaults=defaults, **kwargs)
GetOrCreate ==
    \E kwargs \in GetOrCreateKwargs, defaults \in GetOrCreateDefaults :
        /\ clock < MaxCalls
        /\ Done([op |-> "get_or_create", kwargs |-> kwargs,
                 defaults |-> defaults],
                get_or_create(db, kwargs, defaults, clock + 1))

\* Income.create_or_update(db, obj_in), obj_in a dict or Income(**supplied)
CreateOrUpdate ==
    \E supplied \in UpsertInputs, form \in {"dict", "model"} :
        /\ clock < MaxCalls
        /\ Done([op |-> "create_or_update", form |-> form,
                 supplied |-> supplied],
                create_or_update(db.Income,
                    IF form = "dict" THEN supplied
                    ELSE model_dump(Construct(supplied, FreshId(db.Income),
                                              clock + 1), TRUE),
                    clock + 1))

\* Income.update(db, db_obj, obj_in), db_obj a loaded row, obj_in a dict or
\* Income(**supplied)
Update ==
    \E db_obj \in db.Income, supplied \in UpdateInputs,
       form \in {"dict", "model"} :
        /\ clock < MaxCalls
        /\ Done([op |-> "update", form |-> form, id |-> db_obj.id,
                 supplied |-> supplied],
                BaseModel_update(db.Income, db_obj,
                    IF form = "dict" THEN supplied
                    ELSE model_dump(Construct(supplied, FreshId(db.Income),
                                              clock + 1), FALSE)))

NextCrud == GetOrCreate \/ CreateOrUpdate \/ Update

SpecCrud == InitCrud /\ [][NextCrud]_vars

\* C8: two successive get_or_create calls with identical arguments return
\* the same row, and the second call performs no insert.
C8_Idempotent ==
    (/\ req.op = "get_or_create" /\ prev.req = req
     /\ resp.err = "none" /\ prev.resp.err = "none") =>
       /\ resp.item.id = prev.resp.item.id
       /\ ~resp.created
       /\ db = pre

\* the row of table with primary key k
RowOf(table, k) == CHOOSE r \in table : r.id = k

\* the id the request of create_or_update carries, NULL if none
GivenId == Get(req.supplied, "id")

\* C9: create_or_update with an id some row carries writes the input's
\* attributes onto that row and inserts nothing; with an id no row carries
\* it inserts exactly one row, with that id; without an id it inserts one
\* new row.  No two rows ever share a primary id, and a call adds at most
\* one row.
C9_Upsert ==
    /\ \A r1, r2 \in db.Income : r1.id = r2.id => r1 = r2
    /\ req.op = "create_or_update" =>
         /\ Cardinality(db.Income) <= Cardinality(pre.Income) + 1
         /\ resp.err = "none"
         /\ IF GivenId # NULL /\ \E r \in pre.Income : r.id = GivenId
            THEN /\ {r.id : r \in db.Income} = {r.id : r \in pre.Income}
                 /\ RowOf(db.Income, GivenId) =
                      SetAttrs(RowOf(pre.Income, GivenId), req.supplied, {})
                 /\ db.Income \ {RowOf(db.Income, GivenId)}
                      = pre.Income \ {RowOf(pre.Income, GivenId)}
            ELSE /\ pre.Income \subseteq db.Income
                 /\ Cardinality(db.Income \ pre.Income) = 1
                 /\ \A r \in db.Income \ pre.Income :
                       /\ GivenId # NULL => r.id = GivenId
                       /\ r.amount = Get(req.supplied, "amount")
                       /\ r = resp.item

\* create_or_update with the id of a stored row changed that row's amount
\* and added no row, after an earlier call had inserted under a given id
C9_Witness ==
    /\ req.op = "create_or_update" /\ GivenId # NULL
    /\ \E r \in pre.Income :
          r.id = GivenId /\ r.amount # Get(req.supplied, "amount")
    /\ Cardinality(db.Income) = Cardinality(pre.Income)
    /\ RowOf(db.Income, GivenId).amount = Get(req.supplied, "amount")
    /\ prev.req.op = "create_or_update"

\* C10: update changes exactly the non-primary-key attributes supplied in
\* obj_in: the primary key of db_obj is never overwritten, and every
\* attribute not supplied keeps its prior value, for dict and for
\* model-instance input.
C10_UpdateFrame ==
    req.op = "update" =>
       /\ {r.id : r \in db.Income} = {r.id : r \in pre.Income}
       /\ \A r \in pre.Income : r.id # req.id => r \in db.Income
       /\ \A c \in Columns("Income") :
             RowOf(db.Income, req.id)[c] =
                IF c # "id" /\ c \in Keys(req.supplied)
                THEN Lookup(req.supplied, c)
                ELSE RowOf(pre.Income, req.id)[c]

\* =========================================================================
\* The mutating operations and the session's transaction (specification
\* SpecSession).  db.Income is the Income table as a query inside the
\* session sees it, session.durable the committed table.  The environment
\* may fail the operation's commit or flush (fault "write") or a refresh
\* after it (fault "refresh").  A session whose flush failed is "inactive"
\* and fails every database call until rollback is called.
\* =========================================================================
\* the session as an operation finds it: the counters of the call at zero
Enter(s) ==
    [s EXCEPT !.before = s.durable, !.commits = 0, !.flushes = 0,
              !.rollbacks = 0, !.failed = "none", !.refreshed = 0]

\* what an operation leaves: the session, the table seen inside it, and
\* what the caller gets
Outcome(s, table, err, item, created, list) ==
    [session |-> s, table |-> table, err |-> err, item |-> item,
     created |-> created, list |-> list]

\* `await db.rollback()`
Rollback(s) == [s EXCEPT !.state = "active", !.rollbacks = @ + 1]

\* every operation commits, whatever its commit flag
Written_AlwaysCommit(s, staged, commit) ==
    [s EXCEPT !.durable = staged, !.commits = @ + 1]

\* `if commit: await db.commit() else: await db.flush()`, succeeding, the
\* table with the operation's changes being staged
Written(s, staged, commit) ==
    IF commit THEN [s EXCEPT !.durable = staged, !.commits = @ + 1]
    ELSE [s EXCEPT !.flushes = @ + 1]

\* the commit or flush raised: the database transaction is gone and the
\* session inactive; an operation with an except clause calls rollback and
\* raises error, any other lets the exception through
WriteFailed(s, guarded, error) ==
    IF guarded
    THEN Outcome(Rollback([s EXCEPT !.failed = "write"]), s.durable, error,
                 NULL, FALSE, <<>>)
    ELSE Outcome([s EXCEPT !.state = "inactive", !.failed = "write"],
                 s.durable, "DBAPIError", NULL, FALSE, <<>>)

\* `await db.refresh(obj)` after the write left session s1: it raises under
\* fault "refresh" if the operation refreshes at all; session.refreshed
\* counts the calls in which the refresh was made
Refreshed(s1, out, list, fault, refreshes, guarded, error) ==
    IF fault = "refresh" /\ refreshes
    THEN IF guarded
         THEN Outcome(Rollback([s1 EXCEPT !.failed = "refresh"]), s1.durable,
                      error, NULL, FALSE, <<>>)
         ELSE Outcome([s1 EXCEPT !.failed = "refresh"], out.table,
                      "DBAPIError", NULL, FALSE, <<>>)
    ELSE Outcome(IF refreshes THEN [s1 EXCEPT !.refreshed = @ + 1] ELSE s1,
                 out.table, "none", out.item, out.created, list)

\* the tail shared by the operations: out is what the operation staged in
\* the session (its err "IntegrityError" if the flush must fail), list the
\* relation collection it leaves, refreshes whether a refresh follows the
\* write, guarded whether the write sits in a try block with a rollback
Persist(s, view, out, list, commit, fault, refreshes, guarded, error) ==
    IF out.err \notin {"none", "IntegrityError"}
    THEN Outcome(s, view, out.err, NULL, FALSE, <<>>)
    ELSE IF fault = "write" \/ s.state = "inactive"
            \/ out.err = "IntegrityError"
    THEN WriteFailed(s, guarded, error)
    ELSE Refreshed(Written(s, out.table, commit), out, list, fault,
                   refreshes, guarded, error)

\* --------------------------------------------------------- save and create
\* self.save(db, commit): `db.add(self)`, self a new instance or a loaded
\* row whose attributes the caller has set
BaseModel_save(s, view, self, commit, fault) ==
    Persist(s, view,
            Wrote({r \in view : r.id # self.id} \cup {self}, self,
                  \A r \in view : r.id # self.id),
            <<>>, commit, fault, TRUE, FALSE, "")

\* cls.create(db, obj_in, commit), obj_in a dict
BaseModel_create(s, view, obj_in, commit, fault, fresh, now) ==
    IF obj_in = <<>>
    THEN Outcome(s, view, "ValueError", NULL, FALSE, <<>>)
    ELSE Persist(s, view, InsertNew(view, obj_in, now),
                 <<>>, commit, fault, TRUE, FALSE, "")

\* ------------------------------------------------------------------ delete
\* self.delete(db, commit, force): a DELETE by id, or db.delete(self); then
\* commit or flush, and no refresh
BaseModel_delete(s, view, self, commit, force, fault) ==
    Persist(s, view, Wrote({r \in view : r.id # self.id}, NULL, FALSE),
            <<>>, commit, fault, FALSE, FALSE, "")

\* ------------------------------------------------------- extend and remove
\* the relation collection contact.incomes as loaded from table: the ids of
\* the incomes of the contact, in primary key order
Loaded(table, contact) ==
    SetToSeq({r.id : r \in {x \in table : x.contact_id = contact}})

\* relation.extend(items) without the relation.clear() of overwrite
ExtendList_NoClear(relation, items, overwrite) == relation \o items

\* `if overwrite: relation.clear()` and `relation.extend(items)`
ExtendList(relation, items, overwrite) ==
    (IF overwrite THEN <<>> ELSE relation) \o items

RECURSIVE RemoveFirst(_, _)
\* relation.remove(item): the first occurrence goes
RemoveFirst(relation, item) ==
    IF relation = <<>> THEN <<>>
    ELSE IF Head(relation) = item THEN Tail(relation)
    ELSE <<Head(relation)>> \o RemoveFirst(Tail(relation), item)

RECURSIVE RemoveList(_, _)
\* `for item in items: if item in relation: relation.remove(item)`
RemoveList(relation, items) ==
    IF items = <<>> THEN relation
    ELSE RemoveList(IF Head(items) \in Range(relation)
                    THEN RemoveFirst(relation, Head(items)) ELSE relation,
                    Tail(items))

\* the Income table once the collection of the contact holds list: its
\* members carry the contact's id, the members it lost carry none
Attach(table, contact, list) ==
    { IF r.id \in Range(list) THEN [r EXCEPT !.contact_id = contact]
      ELSE IF r.contact_id = contact THEN [r EXCEPT !.contact_id = NULL]
      ELSE r : r \in table }

\* the tail of extend and remove, list the collection after the list
\* operations
RelationWrite(s, view, contact, list, commit, fault, error) ==
    Persist(s, view, Wrote(Attach(view, contact, list), NULL, FALSE), list,
            commit, fault, TRUE, TRUE, error)

\* contact.extend(db, "incomes", items, commit, overwrite)
extend(s, view, contact, items, commit, overwrite, fault) ==
    RelationWrite(s, view, contact,
                  ExtendList(Loaded(view, contact), items, overwrite),
                  commit, fault, "HTTP500")

\* contact.remove(db, "incomes", items, commit)
remove(s, view, contact, items, commit, fault) ==
    RelationWrite(s, view, contact,
                  RemoveList(Loaded(view, contact), items),
                  commit, fault, "RuntimeError")

\* ------------------------------------------------- bulk_create, bulk_delete
\* db.add_all(objects_in): the rows staged, "IntegrityError" for the flush
\* if two of them, or one of them and a stored row, share a primary key
AddAll(view, objects_in) ==
    IF \/ \E i \in DOMAIN objects_in : \E r \in view : r.id = objects_in[i].id
       \/ \E i, j \in DOMAIN objects_in :
             i # j /\ objects_in[i].id = objects_in[j].id
    THEN Failed(view, "IntegrityError")
    ELSE Wrote(view \cup Range(objects_in), NULL, TRUE)

\* cls.bulk_create(db, objects_in, commit)
bulk_create(s, view, objects_in, commit, fault) ==
    Persist(s, view, AddAll(view, objects_in), <<>>, commit, fault,
            TRUE, TRUE, "HTTP500")

\* cls.bulk_delete(db, objects, commit)
bulk_delete(s, view, objects, commit, fault) ==
    IF objects = <<>> THEN Outcome(s, view, "none", NULL, FALSE, <<>>)
    ELSE Persist(s, view,
                 Wrote({r \in view : \A i \in DOMAIN objects :
                                        r.id # objects[i].id}, NULL, FALSE),
                 <<>>, commit, fault, FALSE, TRUE, "HTTP500")

\* ------------------------------- create_or_update, get_or_create, update
\* cls.create_or_update(db, obj_in, commit): commit_and_refresh
SessionCreateOrUpdate(s, view, obj_data, commit, fault, now) ==
    Persist(s, view, create_or_update(view, obj_data, now), <<>>, commit,
            fault, TRUE, FALSE, "")

\* cls.get_or_create(db, commit=commit, **kwargs), out what get_or_create
\* stages: a row found is returned with no database write
SessionGetOrCreate(s, view, out, commit, fault) ==
    IF s.state = "inactive"
    THEN Outcome(s, view, "RuntimeError", NULL, FALSE, <<>>)
    ELSE IF out.err = "none" /\ ~out.created
    THEN Outcome(s, view, "none", out.item, FALSE, <<>>)
    ELSE Persist(s, view, out, <<>>, commit, fault, TRUE, FALSE, "")

\* cls.update(db, db_obj, obj_in, commit): refresh after a commit only
SessionUpdate(s, view, db_obj, update_data, commit, fault) ==
    Persist(s, view, BaseModel_update(view, db_obj, update_data), <<>>,
            commit, fault, commit, FALSE, "")

\* ------------------------------------------------ specification SpecSession
MaxSessionCalls == 2   \* operations in one behaviour of the session specification

\* where the environment may fail an operation: its commit or flush, or a
\* refresh after it if the operation refreshes
Faults(refreshes) ==
    IF refreshes THEN {"none", "write", "refresh"} ELSE {"none", "write"}

\* the Income tables committed when the session opens: none, or two
\* incomes, the first of them of contact 1
SessionTables ==
    { {},
      {[id |-> 1, contact_id |-> 1, amount |-> 1, description |-> Text(1),
        created_at |-> 0],
       [id |-> 2, contact_id |-> NULL, amount |-> 1, description |-> Text(1),
        created_at |-> 0]} }

\* the lists of incomes handed to extend and remove: one or two of the
\* stored incomes, in any order, the same one twice included
ItemLists(table) ==
    {<<a.id>> : a \in table} \cup {<<a.id, b.id>> : a, b \in table}

\* the batches handed to bulk_create: two new instances, and one instance
\* twice
Batches(fresh, now) ==
    { <<Instantiate(<<Pair("amount", 1)>>, fresh, now),
        Instantiate(<<Pair("amount", 2)>>, fresh + 1, now)>>,
      <<Instantiate(<<Pair("amount", 1)>>, fresh, now),
        Instantiate(<<Pair("amount", 1)>>, fresh, now)>> }

\* every row of the table, in primary key order
AllRows(table) ==
    [i \in 1..Cardinality(table) |->
        CHOOSE r \in table : r.id = SetToSeq({x.id : x \in table})[i]]

\* the stored row of the smallest primary key
FirstStored(table) == CHOOSE r \in table : \A x \in table : r.id <= x.id

InitSession ==
    /\ db \in {[Income |-> t, Contact |-> ContactRows] : t \in SessionTables}
    /\ pre = db /\ req = IdleReq /\ resp = IdleResp
    /\ prev = IdlePrev /\ clock = 0
    /\ qa = NoFilter /\ qb = NoFilter /\ qc = NoFilter /\ qop = "none"
    /\ session = [IdleSession EXCEPT !.durable = db.Income,
                                     !.before = db.Income]
    /\ ser = IdleSer

\* the state after an operation that left out
Called(request, out) ==
    /\ clock < MaxSessionCalls
    /\ clock' = clock + 1
    /\ pre' = db
    /\ prev' = [req |-> req, resp |-> resp]
    /\ req' = request
    /\ resp' = [err |-> out.err, item |-> out.item, created |-> out.created,
                list |-> out.list]
    /\ db' = [db EXCEPT !.Income = out.table]
    /\ session' = out.session
    /\ UNCHANGED <<qa, qb, qc, qop, ser>>

\* a primary key neither the session nor the database holds
NewId == FreshId(db.Income \cup session.durable)

Save ==
    \E commit \in BOOLEAN, fault \in Faults(TRUE) :
        Called([op |-> "save", commit |-> commit, fault |-> fault],
               BaseModel_save(Enter(session), db.Income,
                   Instantiate(<<Pair("amount", 1)>>, NewId, clock + 1),
                   commit, fault))

Create ==
    \E commit \in BOOLEAN, fault \in Faults(TRUE) :
        Called([op |-> "create", commit |-> commit, fault |-> fault],
               BaseModel_create(Enter(session), db.Income,
                                <<Pair("amount", 1)>>, commit, fault, NewId,
                                clock + 1))

SessionUpsert ==
    \E commit \in BOOLEAN, fault \in Faults(TRUE) :
        Called([op |-> "create_or_update", commit |-> commit,
                fault |-> fault],
               SessionCreateOrUpdate(Enter(session), db.Income,
                   <<Pair("id", 1), Pair("amount", 2)>>, commit, fault,
                   clock + 1))

SessionGetOrCreateCall ==
    \E commit \in BOOLEAN, fault \in Faults(TRUE) :
        Called([op |-> "get_or_create", commit |-> commit, fault |-> fault],
               SessionGetOrCreate(Enter(session), db.Income,
                   get_or_create(db, <<[key |-> <<"amount">>,
                                        value |-> Scalar(1)]>>, <<>>,
                                 clock + 1),
                   commit, fault))

SessionUpdateCall ==
    \E commit \in BOOLEAN, fault \in Faults(TRUE) :
        /\ db.Income # {}
        /\ Called([op |-> "update", commit |-> commit, fault |-> fault],
                  SessionUpdate(Enter(session), db.Income,
                                FirstStored(db.Income),
                                <<Pair("amount", 2)>>, commit, fault))

Delete ==
    \E commit \in BOOLEAN, fault \in Faults(FALSE), force \in BOOLEAN :
        /\ db.Income # {}
        /\ Called([op |-> "delete", commit |-> commit, fault |-> fault,
                   force |-> force],
                  BaseModel_delete(Enter(session), db.Income,
                                   FirstStored(db.Income), commit, force,
                                   fault))

Extend ==
    \E commit \in BOOLEAN, fault \in Faults(TRUE) :
        /\ db.Income # {}
        /\ Called([op |-> "extend", commit |-> commit, fault |-> fault,
                   contact |-> 1, items |-> <<FirstStored(db.Income).id>>,
                   overwrite |-> TRUE],
                  extend(Enter(session), db.Income, 1,
                         <<FirstStored(db.Income).id>>, commit, TRUE, fault))

Remove ==
    \E commit \in BOOLEAN, fault \in Faults(TRUE) :
        /\ db.Income # {}
        /\ Called([op |-> "remove", commit |-> commit, fault |-> fault,
                   contact |-> 1, items |-> <<FirstStored(db.Income).id>>],
                  remove(Enter(session), db.Income, 1,
                         <<FirstStored(db.Income).id>>, commit, fault))

BulkCreate ==
    \E commit \in BOOLEAN, fault \in Faults(TRUE),
       objects_in \in Batches(NewId, clock + 1) :
        Called([op |-> "bulk_create", commit |-> commit, fault |-> fault,
                objects |-> objects_in],
               bulk_create(Enter(session), db.Income, objects_in, commit,
                           fault))

BulkDelete ==
    \E commit \in BOOLEAN, fault \in Faults(FALSE),
       objects \in {<<>>, AllRows(db.Income)} :
        Called([op |-> "bulk_delete", commit |-> commit, fault |-> fault,
                objects |-> objects],
               bulk_delete(Enter(session), db.Income, objects, commit, fault))

\* the caller's own `await db.commit()`, as the router create_user does
\* after its commit=False saves
CallerCommit ==
    /\ req.op \notin {"none", "commit", "rollback"}
    /\ session.state = "active"
    /\ pre' = db
    /\ prev' = [req |-> req, resp |-> resp]
    /\ req' = [op |-> "commit"]
    /\ resp' = [err |-> "none", item |-> NULL, created |-> FALSE,
                list |-> <<>>]
    /\ session' = [Enter(session) EXCEPT !.durable = db.Income]
    /\ UNCHANGED <<db, clock, qa, qb, qc, qop, ser>>

\* the caller's own `await db.rollback()`
CallerRollback ==
    /\ req.op \notin {"none", "commit", "rollback"}
    /\ pre' = db
    /\ prev' = [req |-> req, resp |-> resp]
    /\ req' = [op |-> "rollback"]
    /\ resp' = [err |-> "none", item |-> NULL, created |-> FALSE,
                list |-> <<>>]
    /\ db' = [db EXCEPT !.Income = session.durable]
    /\ session' = [Enter(session) EXCEPT !.state = "active"]
    /\ UNCHANGED <<clock, qa, qb, qc, qop, ser>>

NextSession ==
    \/ Save \/ Create \/ SessionUpsert \/ SessionGetOrCreateCall
    \/ SessionUpdateCall \/ Delete \/ Extend \/ Remove
    \/ BulkCreate \/ BulkDelete \/ CallerCommit \/ CallerRollback

SpecSession == InitSession /\ [][NextSession]_vars

\* ---------------------------------------------- specification SpecRelation
\* extend and remove on the collection contact.incomes, over every list of
\* one or two stored incomes
RelationTables == IncomeTables(3, {NULL, 1}, {1}, {Text(1)})

InitRelation ==
    /\ db \in {[Income |-> t, Contact |-> ContactRows] : t \in RelationTables}
    /\ pre = db /\ req = IdleReq /\ resp = IdleResp
    /\ prev = IdlePrev /\ clock = 0
    /\ qa = NoFilter /\ qb = NoFilter /\ qc = NoFilter /\ qop = "none"
    /\ session = [IdleSession EXCEPT !.durable = db.Income,
                                     !.before = db.Income]
    /\ ser = IdleSer

ExtendItems ==
    \E overwrite \in BOOLEAN, items \in ItemLists(db.Income) :
        Called([op |-> "extend", commit |-> TRUE, fault |-> "none",
                contact |-> 1, items |-> items, overwrite |-> overwrite],
               extend(Enter(session), db.Income, 1, items, TRUE, overwrite,
                      "none"))

RemoveItems ==
    \E items \in ItemLists(db.Income) :
        Called([op |-> "remove", commit |-> TRUE, fault |-> "none",
                contact |-> 1, items |-> items],
               remove(Enter(session), db.Income, 1, items, TRUE, "none"))

NextRelation == ExtendItems \/ RemoveItems

SpecRelation == InitRelation /\ [][NextRelation]_vars

\* ------------------------------------------------------------ C11 .. C14
MutatingOps ==
    {"save", "create", "create_or_update", "get_or_create", "update",
     "delete", "extend", "remove", "bulk_create", "bulk_delete"}

\* the last operation was a mutating one and handed back normally
Succeeded == req.op \in MutatingOps /\ resp.err = "none"

\* commit=False: a flush, no commit, nothing durable; commit=True: one commit
CommitFlagObeyed ==
    IF req.commit THEN session.commits = 1
    ELSE /\ session.commits = 0 /\ session.flushes >= 1
         /\ session.durable = session.before

\* after the caller's rollback the session sees the committed table, which
\* the rollback did not change
RolledBack ==
    req.op = "rollback" =>
        db.Income = session.durable /\ session.durable = session.before

\* C11 as stated: every mutating operation that succeeds with
\* commit=False flushes and never commits, so that its changes are gone
\* after the caller's rollback and durable only after the caller's commit;
\* with commit=True it commits exactly once.
C11_CommitFlag ==
    /\ Succeeded => CommitFlagObeyed
    /\ RolledBack

\* the operation had nothing to write: get_or_create found the row, or
\* bulk_delete was given no object
NothingToWrite ==
    \/ req.op = "get_or_create" /\ ~resp.created
    \/ req.op = "bulk_delete" /\ req.objects = <<>>

\* C11 amended: every mutating operation that succeeds with commit=False
\* flushes and never commits, so that its changes are gone after the
\* caller's rollback and durable only after the caller's commit; with
\* commit=True it commits exactly once -- except that get_or_create
\* finding the row and bulk_delete of an empty list neither flush nor
\* commit, whatever the flag.
C11_CommitFlagWhenWriting ==
    /\ Succeeded =>
          IF NothingToWrite
          THEN /\ session.commits = 0 /\ session.flushes = 0
               /\ session.durable = session.before /\ db = pre
          ELSE CommitFlagObeyed
    /\ RolledBack

\* the caller rolled back after an operation with commit=False had
\* succeeded, and the operation's change is gone
C11_Witness ==
    /\ req.op = "rollback"
    /\ prev.req.op \in MutatingOps /\ ~prev.req.commit
    /\ prev.resp.err = "none"
    /\ pre.Income # db.Income
    /\ db.Income = session.durable

\* C12: whenever the commit or flush inside a mutating operation fails,
\* the operation has called rollback before the error reaches the caller,
\* and the session is usable for the next operation.
C12_RollbackOnFailure ==
    (req.op \in MutatingOps /\ session.failed = "write") =>
        /\ resp.err # "none"
        /\ session.rollbacks >= 1
        /\ session.state = "active"

\* the primary keys of the objects of the request
ObjectIds == {req.objects[i].id : i \in DOMAIN req.objects}

\* C13: bulk_create and bulk_delete with commit=True are all-or-nothing:
\* an HTTP 500 is raised after a rollback and with nothing of the batch
\* persisted, a normal return has all of it persisted; bulk_delete of an
\* empty list performs no database operation.
C13_BulkAllOrNothing ==
    /\ (req.op \in {"bulk_create", "bulk_delete"} /\ req.commit) =>
          /\ resp.err \in {"none", "HTTP500"}
          /\ resp.err = "HTTP500" =>
                /\ session.rollbacks >= 1
                /\ session.durable = session.before
          /\ resp.err = "none" =>
                IF req.op = "bulk_create"
                THEN Range(req.objects) \subseteq session.durable
                ELSE \A r \in session.durable : r.id \notin ObjectIds
    /\ (req.op = "bulk_delete" /\ req.objects = <<>>) =>
          /\ session.commits = 0 /\ session.flushes = 0
          /\ session.rollbacks = 0
          /\ db = pre /\ session.durable = session.before

\* the collection of the request's contact before the operation
PriorMembers == Loaded(pre.Income, req.contact)

\* the prior members that the request does not list
Unlisted ==
    LET Keep(x) == x \notin Range(req.items)
    IN SelectSeq(PriorMembers, Keep)

sa_relationships == <<"contact", "incomes">>

\* get_type_hints(cls) and the class attributes of an output shape:
\* declared are the scalar fields hinted, defaults the fields the class
\* holds an attribute for (hasattr(cls, field): a field declared with a
\* default), contact and incomes the shape hinted for the relation
\* (Optional[S], List[S]) or "none". GraphSchema is a shape hinting both
\* relations by itself, the nesting serializer.py provides for at 136-171.
Hints(cls) ==
    CASE cls = "IncomeSchema" ->
           [declared |-> Columns("Income"),
            defaults |-> Columns("Income") \cup {"contact"},
            contact |-> "ContactIncomeSchema", incomes |-> "none"]
      [] cls = "ContactIncomeSchema" ->
           [declared |-> Columns("Contact"), defaults |-> Columns("Contact"),
            contact |-> "none", incomes |-> "none"]
      [] cls = "IncomeOutput" ->
           [declared |-> Columns("Income"), defaults |-> {},
            contact |-> "none", incomes |-> "none"]
      [] OTHER ->
           [declared |-> Columns("Income"),
            defaults |-> Columns("Income") \cup {"contact", "incomes"},
            contact |-> "GraphSchema", incomes |-> "GraphSchema"]

\* resolved_type_hints.get(rel_name, None)
HintOf(cls, rel_name) ==
    IF rel_name = "contact" THEN Hints(cls).contact ELSE Hints(cls).incomes

\* the serializer at the start of one serialize call on a graph
Fresh(graph) == [IdleSer EXCEPT !.graph = graph, !.source = graph]

\* what a step of the build hands on: the serializer after it and its value
Value(s, out) == [s |-> s, out |-> out]

\* original_id in visited, with the check left out
AlreadyVisited_Never(s, instance) == FALSE

\* original_id in visited
AlreadyVisited(s, instance) == instance \in s.visited

\* instance_cache.get(original_id, None)
CacheGet(s, instance) ==
    IF instance \in DOMAIN s.instance_cache THEN s.instance_cache[instance]
    ELSE NULL

\* instance_cache.get(original_id, None) answering None whatever is cached
Revisit_None(s, instance) ==
    Value([s EXCEPT !.visits = Append(@, [instance |-> instance, out |-> NULL,
                                          completed |-> Range(s.writes)])],
          NULL)

\* `if original_id in visited: return instance_cache.get(original_id, None)`;
\* the visit is recorded with what it was answered and the instances whose
\* build had completed by then
Revisit(s, instance) ==
    Value([s EXCEPT !.visits = Append(@, [instance |-> instance,
                                          out |-> CacheGet(s, instance),
                                          completed |-> Range(s.writes)])],
          CacheGet(s, instance))

\* the unloaded test of the relations loop, never taken
Unloaded_Never(node, rel_name) == FALSE

\* not exists_in_state and current_value is None: model_dump() holds no
\* relationship, so current_value is None for every relation
Unloaded(node, rel_name) == rel_name \notin node.loaded

\* getattr(instance, rel_name, None): the read is recorded; reading a
\* relationship that is not in the instance state is a lazy load, a fetch
\* that puts the relationship into the state
GetAttr(s, instance, rel_name) ==
    IF rel_name \in s.graph[instance].loaded
    THEN [s EXCEPT !.reads = @ \cup {<<instance, rel_name>>}]
    ELSE [s EXCEPT !.reads = @ \cup {<<instance, rel_name>>},
                   !.fetched = @ \cup {<<instance, rel_name>>},
                   !.graph[instance].loaded = @ \cup {rel_name}]

\* not rel_value
Falsy(node, rel_name) ==
    IF rel_name = "contact" THEN node.contact = NULL ELSE node.incomes = <<>>

\* None as the value of the relation in the output data: an output list is
\* never empty, <<>> stands for None there
NoneOf(rel_name) == IF rel_name = "contact" THEN NULL ELSE <<>>

\* the scalar fields of cls(**filtered_data): the dumped values of the
\* fields the shape declares, None for a declared field the dump lacks
ShapeFields(cls, row) ==
    [f \in Hints(cls).declared |-> IF f \in DOMAIN row THEN row[f] ELSE NULL]

\* schema_instance = cls(**filtered_data); instance_cache[original_id] =
\* schema_instance
Built(cls, instance, s, one, many) ==
    Value([s EXCEPT
             !.objs = Append(@, [cls |-> cls, src |-> instance,
                                 fields |-> ShapeFields(cls, s.graph[instance].row),
                                 contact |-> one, incomes |-> many]),
             !.instance_cache = (instance :> (Len(s.objs) + 1)) @@ @,
             !.writes = Append(@, instance)],
          Len(s.objs) + 1)

RECURSIVE serialize_instance(_, _, _, _)
RECURSIVE SerializeItems(_, _, _, _, _)

\* the list branch: for idx, item in enumerate(rel_value): sub_inst = await
\* elem_type._serialize(item, visited, instance_cache, item_path)
SerializeItemsFrom(cls, rest, r, fuel, new_list) ==
    SerializeItems(cls, rest, r.s, fuel, Append(new_list, r.out))

SerializeItems(cls, items, s, fuel, new_list) ==
    IF items = <<>> THEN Value(s, new_list)
    ELSE SerializeItemsFrom(cls, Tail(items),
                            serialize_instance(cls, Head(items), s, fuel - 1),
                            fuel, new_list)

\* the branches after getattr: a falsy value gives None, a relation without
\* a hint is kept raw and filtered out of the output, a hinted one is built
\* by the hinted shape (every shape a hint names has _serialize)
SerializeLoaded(cls, instance, rel_name, s, fuel) ==
    IF Falsy(s.graph[instance], rel_name) \/ HintOf(cls, rel_name) = "none"
    THEN Value(s, NoneOf(rel_name))
    ELSE IF rel_name = "incomes"
    THEN SerializeItems(HintOf(cls, rel_name), s.graph[instance].incomes, s,
                        fuel, <<>>)
    ELSE serialize_instance(HintOf(cls, rel_name), s.graph[instance].contact,
                            s, fuel - 1)

\* one turn of the loop over sa_relationships
SerializeRelation(cls, instance, rel_name, s, fuel) ==
    IF Unloaded(s.graph[instance], rel_name) THEN Value(s, NoneOf(rel_name))
    ELSE SerializeLoaded(cls, instance, rel_name,
                         GetAttr(s, instance, rel_name), fuel)

\* the second relation and the construction, after the first relation
SerializeRest(cls, instance, one, many) ==
    Built(cls, instance, many.s, one.out, many.out)

SerializeFrom(cls, instance, one, fuel) ==
    SerializeRest(cls, instance, one,
                  SerializeRelation(cls, instance, sa_relationships[2], one.s,
                                    fuel))

\* serialize_instance(cls, instance, visited, instance_cache, path); fuel is
\* the call depth left: a build nested deeper than there are instances never
\* ends, and is cut with ser.diverged set
serialize_instance(cls, instance, s, fuel) ==
    IF instance = NULL THEN Value(s, NULL)
    ELSE IF AlreadyVisited(s, instance) THEN Revisit(s, instance)
    ELSE IF fuel <= 0 THEN Value([s EXCEPT !.diverged = TRUE], NULL)
    ELSE SerializeFrom(cls, instance,
             SerializeRelation(cls, instance, sa_relationships[1],
                               [s EXCEPT !.visited = @ \cup {instance}], fuel),
             fuel)

\* the call depth a terminating build stays within
Fuel(graph) == Len(graph) + 1

\* ------------------------------------------- serialize_to_dict, two stages
\* A dict is [ok, keys, fields, contact, incomes]: keys the keys it holds,
\* fields the values of its scalar keys, contact the dict under "contact"
\* (NoDict for None or no such key), incomes the list under "incomes".

\* schema_fields = set(field for field, hint in resolved_type_hints.items()
\*                     if not hasattr(cls, field))
schema_fields(cls) ==
    (Hints(cls).declared
       \cup {r \in Range(sa_relationships) : HintOf(cls, r) # "none"})
    \ Hints(cls).defaults

\* filtered_data = {k: v for k, v in data.items() if k in schema_fields};
\* data holds the dumped columns and one key for each relationship
Filtered(cls, row, one, many) ==
    [ok |-> TRUE,
     keys |-> (DOMAIN row \cup Range(sa_relationships)) \cap schema_fields(cls),
     fields |-> [f \in DOMAIN row \cap schema_fields(cls) |-> row[f]],
     contact |-> IF "contact" \in schema_fields(cls) THEN one ELSE NoDict,
     incomes |-> IF "incomes" \in schema_fields(cls) THEN many ELSE <<>>]

\* None as the value of the relation in the dict
NoneIn(rel_name) == IF rel_name = "contact" THEN NoDict ELSE <<>>

RECURSIVE serialize_to_dict(_, _, _, _)
RECURSIVE DictItems(_, _, _, _, _)

DictItemsFrom(cls, rest, r, fuel, new_list) ==
    DictItems(cls, rest, r.s, fuel, Append(new_list, r.out))

\* for idx, item in enumerate(rel_value): sub_data = await
\* serialize_to_dict(real_type, item, visited, item_path)
DictItems(cls, items, s, fuel, new_list) ==
    IF items = <<>> THEN Value(s, new_list)
    ELSE DictItemsFrom(cls, Tail(items),
                       serialize_to_dict(cls, Head(items), s, fuel - 1),
                       fuel, new_list)

\* the branches after getattr; the items of a list are handed to
\* serialize_to_dict with real_type, the List[...] hint itself
DictLoaded(cls, instance, rel_name, s, fuel) ==
    IF Falsy(s.graph[instance], rel_name) \/ HintOf(cls, rel_name) = "none"
    THEN Value(s, NoneIn(rel_name))
    ELSE IF rel_name = "incomes"
    THEN DictItems("List", s.graph[instance].incomes, s, fuel, <<>>)
    ELSE serialize_to_dict(HintOf(cls, rel_name), s.graph[instance].contact,
                           s, fuel - 1)

\* one turn of the loop over sa_relationships
DictRelation(cls, instance, rel_name, s, fuel) ==
    IF s.error # "none" \/ Unloaded(s.graph[instance], rel_name)
    THEN Value(s, NoneIn(rel_name))
    ELSE DictLoaded(cls, instance, rel_name, GetAttr(s, instance, rel_name),
                    fuel)

DictRest(cls, instance, one, many) ==
    Value(many.s,
          IF many.s.error # "none" THEN NoDict
          ELSE Filtered(cls, many.s.graph[instance].row, one.out, many.out))

DictFrom(cls, instance, one, fuel) ==
    DictRest(cls, instance, one,
             DictRelation(cls, instance, sa_relationships[2], one.s, fuel))

\* serialize_to_dict(cls, instance, visited, path); get_type_hints of a
\* List[...] alias raises TypeError, an exception ends the whole call
serialize_to_dict(cls, instance, s, fuel) ==
    IF s.error # "none" \/ instance = NULL \/ instance \in s.visited
    THEN Value(s, NoDict)
    ELSE IF cls = "List"
    THEN Value([s EXCEPT !.visited = @ \cup {instance}, !.error = "TypeError"],
               NoDict)
    ELSE IF fuel <= 0 THEN Value([s EXCEPT !.diverged = TRUE], NoDict)
    ELSE DictFrom(cls, instance,
             DictRelation(cls, instance, sa_relationships[1],
                          [s EXCEPT !.visited = @ \cup {instance}], fuel),
             fuel)

RECURSIVE dict_to_instance(_, _)

\* new_list.append(dict_to_instance(elem_type, item)) for a dict item,
\* new_list.append(item) otherwise
InstanceItems(cls, value) ==
    [i \in DOMAIN value |->
        IF value[i].ok THEN dict_to_instance(cls, value[i]) ELSE value[i]]

\* dict_to_instance(cls, data): every hinted field is data.get(field), a
\* nested dict built by the hinted shape, None where the dict has no value
dict_to_instance(cls, data) ==
    IF ~data.ok THEN NoDict
    ELSE [ok |-> TRUE, cls |-> cls,
          fields |-> [f \in Hints(cls).declared |->
                         IF f \in DOMAIN data.fields THEN data.fields[f]
                         ELSE NULL],
          contact |-> IF Hints(cls).contact = "none" THEN NoDict
                      ELSE dict_to_instance(Hints(cls).contact, data.contact),
          incomes |-> IF Hints(cls).incomes = "none" THEN <<>>
                      ELSE InstanceItems(Hints(cls).incomes, data.incomes)]

\* =========================================================================
\* The serializer called on entity graphs.

MaxInstances == 2    \* instances of an entity graph

\* what model_dump() of instance i returns
DumpOf(i) ==
    [id |-> i, contact_id |-> NULL, amount |-> i, description |-> NULL,
     created_at |-> 0]

\* the instance the to-one relationship of instance i of n leads to
ContactOf(i, n, choice) ==
    IF choice = "self" THEN i
    ELSE IF choice = "next" THEN (i % n) + 1
    ELSE NULL

\* the entity graphs of n instances: each relationship in the instance
\* state or not, the to-one relationship empty, to the instance itself or to
\* the next one, the to-many relationship empty or of every instance
Graphs(n, states) ==
    { [i \in 1..n |->
         [row |-> DumpOf(i), loaded |-> f[i].loaded,
          contact |-> ContactOf(i, n, f[i].contact),
          incomes |-> IF f[i].incomes THEN [k \in 1..n |-> k] ELSE <<>>]] :
      f \in [1..n -> [loaded : states, contact : {"none", "self", "next"},
                      incomes : BOOLEAN]] }

InitSerializer ==
    /\ db = IdleDb /\ pre = IdleDb /\ req = IdleReq /\ resp = IdleResp
    /\ prev = IdlePrev /\ clock = 0 /\ session = IdleSession
    /\ qa = NoFilter /\ qb = NoFilter /\ qc = NoFilter /\ qop = "none"
    /\ \E n \in 1..MaxInstances :
         \E graph \in Graphs(n, SUBSET Range(sa_relationships)) :
            ser = Fresh(graph)

\* the call returns: the serializer as the build left it, and the request
Returned(op, cls, roots, s) ==
    /\ ser' = [s EXCEPT !.op = op, !.cls = cls, !.roots = roots]
    /\ UNCHANGED <<db, pre, req, resp, prev, clock, qa, qb, qc, qop, session>>

SerializeDone(cls, root, r) ==
    Returned("serialize", cls, <<root>>, [r.s EXCEPT !.results = <<r.out>>])

\* await cls.serialize(instance, many=False)
Serialize ==
    \E cls \in {"IncomeSchema", "GraphSchema"}, root \in {NULL, 1} :
        /\ ser.op = "none" /\ ser.graph # <<>>
        /\ SerializeDone(cls, root,
               serialize_instance(cls, root, Fresh(ser.graph), Fuel(ser.graph)))

SerializeToDictDone(cls, root, r) ==
    Returned("serialize_to_dict", cls, <<root>>, [r.s EXCEPT !.dict = r.out])

\* await serialize_to_dict(cls, instance)
SerializeToDict ==
    \E cls \in {"IncomeSchema", "ContactIncomeSchema", "IncomeOutput",
                "GraphSchema"}, root \in {NULL, 1} :
        /\ ser.op = "none" /\ ser.graph # <<>>
        /\ SerializeToDictDone(cls, root,
               serialize_to_dict(cls, root, Fresh(ser.graph), Fuel(ser.graph)))

NextSerializer == Serialize \/ SerializeToDict

SpecSerializer == InitSerializer /\ [][NextSerializer]_vars

\* ------------------------------------------------- serialize(many=True)
\* the pairs of list elements over the instances of a graph and None
RootLists(graph) ==
    {<<a, b>> : a \in DOMAIN graph \cup {NULL}, b \in DOMAIN graph \cup {NULL}}

InitGather ==
    /\ db = IdleDb /\ pre = IdleDb /\ req = IdleReq /\ resp = IdleResp
    /\ prev = IdlePrev /\ clock = 0 /\ session = IdleSession
    /\ qa = NoFilter /\ qb = NoFilter /\ qc = NoFilter /\ qop = "none"
    /\ \E n \in 1..MaxInstances :
         \E graph \in Graphs(n, {Range(sa_relationships)}) :
            ser = Fresh(graph)

\* visited = set(); instance_cache = {}; one task for each element, none of
\* them started
SerializeMany ==
    \E cls \in {"IncomeSchema", "GraphSchema"}, roots \in RootLists(ser.graph) :
        /\ ser.op = "none" /\ ser.graph # <<>>
        /\ Returned("serialize_many", cls, roots,
                    [Fresh(ser.graph) EXCEPT
                        !.pending = DOMAIN roots,
                        !.results = [i \in DOMAIN roots |-> NULL]])

\* each task handed a visited set and a cache of its own
Shared_Partitioned(s) == [s EXCEPT !.visited = {}, !.instance_cache = <<>>]

\* tasks.append(cls._serialize(item, visited, instance_cache, path)): every
\* task is handed the visited set and the cache of the call
Shared(s) == s

TaskDone(i, r) ==
    Returned(ser.op, ser.cls, ser.roots,
             [r.s EXCEPT !.pending = @ \ {i}, !.results[i] = r.out])

\* one task of asyncio.gather(*tasks) runs; a build awaits nothing but its
\* own sub-builds, so a task that runs runs to its end
RunTask ==
    \E i \in ser.pending :
        TaskDone(i, serialize_instance(ser.cls, ser.roots[i], Shared(ser),
                                       Fuel(ser.graph)))

NextGather == SerializeMany \/ RunTask

SpecGather == InitGather /\ [][NextGather]_vars

\* ------------------------------------------- serialize and re-hydrate
\* one instance, its columns drawn from small sets, its relationships not
\* loaded or loaded and empty
InitRoundTrip ==
    /\ db = IdleDb /\ pre = IdleDb /\ req = IdleReq /\ resp = IdleResp
    /\ prev = IdlePrev /\ clock = 0 /\ session = IdleSession
    /\ qa = NoFilter /\ qb = NoFilter /\ qc = NoFilter /\ qop = "none"
    /\ \E table \in IncomeTables(1, {NULL, 1}, {NULL, 1, 2}, {NULL, Text(1)}),
          loaded \in {{}, Range(sa_relationships)} :
         ser = Fresh(<< [row |-> FirstStored(table), loaded |-> loaded,
                         contact |-> NULL, incomes |-> <<>>] >>)

\* dict_to_instance(cls, data) on the dict serialize_to_dict returned
DictToInstance ==
    /\ ser.op = "serialize_to_dict" /\ ser.error = "none"
    /\ Returned("dict_to_instance", ser.cls, ser.roots,
                [ser EXCEPT !.instance = dict_to_instance(ser.cls, ser.dict)])

NextRoundTrip == SerializeToDict \/ DictToInstance

SpecRoundTrip == InitRoundTrip /\ [][NextRoundTrip]_vars

\* =========================================================================
\* Claims about the graph serializer.

\* the output objects built for instance n
BuiltFor(n) == {k \in DOMAIN ser.objs : ser.objs[k].src = n}

\* C15: for every entity graph, mutual and self references included,
\* serialize_instance terminates, and within one serialize call the output
\* shape of each instance is built at most once: the cache entry of an
\* instance is written once and never replaced.
C15_CycleSafe ==
    ser.op \in {"serialize", "serialize_many"} =>
        /\ ~ser.diverged
        /\ \A i, j \in DOMAIN ser.writes :
              ser.writes[i] = ser.writes[j] => i = j
        /\ \A n \in DOMAIN ser.graph : Cardinality(BuiltFor(n)) <= 1
        /\ \A n \in DOMAIN ser.instance_cache :
              BuiltFor(n) = {ser.instance_cache[n]}

\* two instances refer to each other, the second also to itself and back
\* through its list; the first was serialized, both were built once and the
\* back references of the second came out as None
C15_Witness ==
    /\ ser.op = "serialize" /\ ser.cls = "GraphSchema" /\ ser.roots = <<1>>
    /\ Len(ser.graph) = 2
    /\ ser.graph[1].contact = 2 /\ ser.graph[2].contact = 1
    /\ ser.graph[2].incomes = <<1, 2>>
    /\ \A n \in DOMAIN ser.graph : ser.graph[n].loaded = Range(sa_relationships)
    /\ ser.writes = <<2, 1>>
    /\ ser.objs[ser.results[1]].contact = ser.instance_cache[2]
    /\ ser.objs[ser.instance_cache[2]].contact = NULL
    /\ ser.objs[ser.instance_cache[2]].incomes = <<NULL, NULL>>

\* the references an output object holds
References(obj) ==
    (IF obj.contact = NULL THEN {} ELSE {obj.contact})
    \cup (Range(obj.incomes) \ {NULL})

\* the elements whose task has run
Finished == DOMAIN ser.roots \ ser.pending

\* C16: serialize(instances, many=True) returns a list of the length and
\* order of the input in which, whatever the order the gathered builds run
\* in, a non-null element has a non-null built output of that element, and
\* an instance that is a root element and referenced from another element's
\* subtree is one and the same output object.
C16_GatherShared ==
    ser.op = "serialize_many" =>
        /\ DOMAIN ser.results = DOMAIN ser.roots
        /\ \A i \in Finished :
              IF ser.roots[i] = NULL THEN ser.results[i] = NULL
              ELSE /\ ser.results[i] \in DOMAIN ser.objs
                   /\ ser.objs[ser.results[i]].src = ser.roots[i]
                   /\ \A k \in DOMAIN ser.objs :
                         \A ref \in References(ser.objs[k]) :
                            ser.objs[ref].src = ser.roots[i]
                               => ref = ser.results[i]

\* both tasks have run; the first element refers to the second, which is a
\* root element too, and its output holds the very output of the second
C16_Witness ==
    /\ ser.op = "serialize_many" /\ ser.pending = {}
    /\ ser.roots = <<1, 2>> /\ ser.writes = <<2, 1>>
    /\ ser.graph[1].contact = 2 /\ ser.graph[2].contact = NULL
    /\ ser.results[1] # ser.results[2]
    /\ ser.objs[ser.results[1]].contact = ser.results[2]

\* C17: dict_to_instance(S, serialize_to_dict(S, x)) holds, for every
\* scalar field declared on S, the value of that field in x.model_dump();
\* fields of x not declared on S are absent from the result.
C17_RoundTrip ==
    (ser.op = "dict_to_instance" /\ ser.roots[1] # NULL) =>
        /\ ser.instance.ok
        /\ DOMAIN ser.instance.fields = Hints(ser.cls).declared
        /\ \A f \in Hints(ser.cls).declared
                      \cap DOMAIN ser.source[ser.roots[1]].row :
              ser.instance.fields[f] = ser.source[ser.roots[1]].row[f]

\* the relations of instance n that were not in its state
NotLoaded(n) == Range(sa_relationships) \ ser.source[n].loaded

\* C18: for every relation of an instance that is not in the instance's
\* loaded state, serialize_instance and serialize_to_dict set the output
\* field to null without reading the relation attribute: no fetch is issued
\* and the source instances are left unchanged.
C18_NoFetch ==
    ser.op \in {"serialize", "serialize_to_dict"} =>
        /\ ser.fetched = {}
        /\ ser.graph = ser.source
        /\ \A n \in DOMAIN ser.source :
              \A rel \in NotLoaded(n) : <<n, rel>> \notin ser.reads
        /\ \A k \in DOMAIN ser.objs :
              /\ "contact" \in NotLoaded(ser.objs[k].src)
                    => ser.objs[k].contact = NULL
              /\ "incomes" \in NotLoaded(ser.objs[k].src)
                    => ser.objs[k].incomes = <<>>
        /\ (ser.dict.ok /\ "contact" \in NotLoaded(ser.roots[1]))
              => ~ser.dict.contact.ok
        /\ (ser.dict.ok /\ "incomes" \in NotLoaded(ser.roots[1]))
              => ser.dict.incomes = <<>>

\* the instance serialized has a contact that is not loaded and a loaded
\* list: the list was read and built, the contact was left alone
C18_Witness ==
    /\ ser.op = "serialize" /\ ser.cls = "GraphSchema" /\ ser.roots = <<1>>
    /\ ser.source[1].loaded = {"incomes"}
    /\ ser.source[1].contact # NULL /\ ser.source[1].incomes # <<>>
    /\ ser.results[1] # NULL
    /\ ser.objs[ser.results[1]].contact = NULL
    /\ ser.objs[ser.results[1]].incomes # <<>>
    /\ ser.reads = {<<1, "incomes">>}

\* =========================================================================
\* What the filters and the eager loading say when a name does not resolve.
\*
\* A message is [err, names]: the exception raised ("none" if the call
\* returns) and the names its text quotes. The text of an AttributeError
\* Python raises for getattr(C, name) is "type object 'C' has no attribute
\* 'name'"; the one raised for `.property.mapper` of a column quotes
\* neither the key's segments nor a model class.

MaxHops == 2    \* relation hops of a key or of a relation path

Message(err, names) == [err |-> err, names |-> names]

\* the least k for which the walk over the first k relations fails
FirstBad(relations, Fails(_)) ==
    CHOOSE k \in DOMAIN relations :
        /\ Fails(SubSeq(relations, 1, k))
        /\ \A j \in 1..(k - 1) : ~Fails(SubSeq(relations, 1, j))

\* the AttributeError of getattr(current_model, relation).property.mapper
HopError(cls, relation) ==
    IF relation \in Columns(cls) THEN Message("AttributeError", {"mapper"})
    ELSE Message("AttributeError", {relation, cls})

\* Q(**{key: value}).build(model): what it raises, for the split key p,
\* its walk w over the relations and the column k it resolves to
QMessageOf(model, p, w, k) ==
    LET Fails(rels) == WalkRelations(model, rels, ROOT, <<>>).err # "none"
    IN IF w.err # "none"
       THEN HopError(w.cls, p.relations[FirstBad(p.relations, Fails)])
       ELSE IF ~HasAttr(w.cls, p.column)
       THEN Message("AttributeError", {p.column, w.cls})
       ELSE IF k.err # "none" THEN Message(k.err, {p.operator})
       ELSE Message("none", {})

QMessageFrom(model, p, w) == QMessageOf(model, p, w, QColumn(p, w))

QMessage(model, key) ==
    QMessageFrom(model, ParseKey(Split(key, {"__"})),
                 WalkRelations(model, ParseKey(Split(key, {"__"})).relations,
                               ROOT, <<>>))

\* apply_filters(query, cls, **{key: value}): what it raises; the messages
\* about an empty part quote the whole key, not a segment
KwMessageOf(model, key, p, w) ==
    LET Fails(rels) == KwWalk(model, rels, ROOT, <<>>, <<>>).err # "none"
    IN IF key = <<>> \/ p.column = "" \/ w.err = "ValueError"
       THEN Message("ValueError", {})
       ELSE IF w.err # "none"
       THEN HopError(w.cls, p.relations[FirstBad(p.relations, Fails)])
       ELSE IF ~HasAttr(w.cls, p.column)
       THEN Message("ValueError", {p.column, w.cls})
       ELSE IF KwError(key, p, w) # "none"
       THEN Message(KwError(key, p, w), {p.operator})
       ELSE Message("none", {})

KwMessage(model, key) ==
    KwMessageOf(model, key, ParseKey(Split(key, {"__"})),
                KwWalk(model, ParseKey(Split(key, {"__"})).relations, ROOT,
                       <<>>, <<>>))

\* ---------------------------------------------------------- apply_relations
\* re.sub(r'(?<!^)(?=[A-Z])', '_', name).lower() on one token of a path:
\* a leading capital is lowered without an underscore; every other name of
\* the model is lower case already
camel_to_snake(name) ==
    IF name = "Contact" THEN "contact"
    ELSE IF name = "Incomes" THEN "incomes"
    ELSE name

\* relation.split("__") / relation.split(".") / [relation]
NestedRelations(relation) ==
    IF "__" \in Range(relation) THEN Split(relation, {"__"})
    ELSE IF "." \in Range(relation) THEN Split(relation, {"."})
    ELSE relation

RECURSIVE LoadPath(_, _, _, _)
\* the loop over nested_relations: the error raised, and the paths the load
\* option built covers; the ValueError names cls, the class the call was
\* made on, whatever class the hop was looked up on
LoadPath(cls, current_cls, nested_relations, path) ==
    IF nested_relations = <<>> THEN [msg |-> Message("none", {}), loaded |-> {}]
    ELSE IF ~HasAttr(current_cls, Head(nested_relations))
    THEN [msg |-> Message("ValueError", {Head(nested_relations), cls}),
          loaded |-> {}]
    ELSE IF Head(nested_relations) \in Columns(current_cls)
    THEN [msg |-> Message("ArgumentError", {Head(nested_relations)}),
          loaded |-> {}]
    ELSE LET rest == LoadPath(cls,
                              RelTarget(current_cls, Head(nested_relations)),
                              Tail(nested_relations),
                              Append(path, Head(nested_relations)))
         IN [msg |-> rest.msg,
             loaded |-> {Append(path, Head(nested_relations))}
                          \cup rest.loaded]

RECURSIVE LoadEach(_, _, _)

LoadEachFrom(cls, rest, st, one) ==
    LoadEach(cls, rest, [msg |-> one.msg, loaded |-> st.loaded \cup one.loaded])

\* the loop over relations: query.options(load_option) for each of them
LoadEach(cls, relations, st) ==
    IF relations = <<>> \/ st.msg.err # "none" THEN st
    ELSE LoadEachFrom(cls, Tail(relations), st,
             LoadPath(cls, cls,
                      NestedRelations([i \in DOMAIN Head(relations) |->
                                          camel_to_snake(Head(relations)[i])]),
                      <<>>))

\* the relations argument: None, False, or a list of paths
NoRelations == [kind |-> "None", paths |-> <<>>]
FalseRelations == [kind |-> "False", paths |-> <<>>]
ListRelations(paths) == [kind |-> "list", paths |-> paths]

\* apply_relations(query, cls, relations): `if relations:` passes over
\* None, False and the empty list
apply_relations(cls, relations) ==
    IF relations.kind # "list"
    THEN [msg |-> Message("none", {}), loaded |-> {}]
    ELSE LoadEach(cls, relations.paths,
                  [msg |-> Message("none", {}), loaded |-> {}])

\* filter / get / all: query = apply_relations(query, cls, relations), the
\* lines that put every relationship of cls in place of None being
\* commented out
EagerLoads(cls, relations) == apply_relations(cls, relations)

\* ------------------------------------------------------------- the calls
\* segs joined by sep into a key or a path
RECURSIVE Joined(_, _)
Joined(segs, sep) ==
    IF Len(segs) <= 1 THEN segs
    ELSE <<Head(segs), sep>> \o Joined(Tail(segs), sep)

\* the relation hops tried: relationships of the model, one in camel case,
\* and a name no class has
HopNames == {"contact", "incomes", "Contact", "foo"}

Hops(n) == UNION {[1..k -> HopNames] : k \in 0..n}

\* columns of the model and a name no class has; no operator, a handled
\* one, the supported one no branch handles, and an unsupported one
FieldNames == {"amount", "first_name", "nope"}
OperatorNames == {"", "gt", "date", "between"}

InitNames ==
    /\ db = IdleDb /\ pre = IdleDb /\ req = IdleReq
    /\ resp = [loaded |-> {}, msg |-> Message("none", {})]
    /\ prev = IdlePrev /\ clock = 0
    /\ session = IdleSession /\ ser = IdleSer
    /\ qa = NoFilter /\ qb = NoFilter /\ qc = NoFilter /\ qop = "none"

Answered(request, msg, loaded) ==
    /\ req = IdleReq
    /\ req' = request
    /\ resp' = [loaded |-> loaded, msg |-> msg]
    /\ UNCHANGED <<db, pre, prev, clock, qa, qb, qc, qop, session, ser>>

KeySegments(hops, field, operator) ==
    hops \o <<field>> \o (IF operator = "" THEN <<>> ELSE <<operator>>)

\* Q(**{key: 1}).build(cls)
BuildQ ==
    \E cls \in Classes, hops \in Hops(MaxHops), field \in FieldNames,
       operator \in OperatorNames :
        Answered([cls |-> cls, operator |-> operator, op |-> "Q.build",
                  field |-> field, hops |-> hops],
                 QMessage(cls, Joined(KeySegments(hops, field, operator), "__")),
                 {})

\* apply_filters(query, cls, **{key: 1})
ApplyKwargs ==
    \E cls \in Classes, hops \in Hops(MaxHops), field \in FieldNames,
       operator \in OperatorNames :
        Answered([cls |-> cls, operator |-> operator, op |-> "apply_filters",
                  field |-> field, hops |-> hops],
                 KwMessage(cls, Joined(KeySegments(hops, field, operator), "__")),
                 {})

RelateDone(request, r) == Answered(request, r.msg, r.loaded)

\* cls.filter(db, relations=...), cls.get(db, relations=...),
\* cls.all(db, relations=...): the eager loading of the query
Relate ==
    \E cls \in Classes, op \in {"filter", "get", "all"},
       hops \in Hops(MaxHops), sep \in {"__", "."},
       kind \in {"None", "False", "list"} :
        /\ kind = "list" \/ (hops = <<>> /\ sep = ".")
        /\ RelateDone([cls |-> cls, operator |-> "", op |-> op, field |-> "",
                       kind |-> kind, sep |-> sep, hops |-> hops],
                   EagerLoads(cls,
                      IF kind = "None" THEN NoRelations
                      ELSE IF kind = "False" THEN FalseRelations
                      ELSE ListRelations(IF hops = <<>> THEN <<>>
                                         ELSE <<Joined(hops, sep)>>)))

NextNames == BuildQ \/ ApplyKwargs \/ Relate

SpecNames == InitNames /\ [][NextNames]_vars

\* =========================================================================
\* Claims about unresolved names and about the default of relations.

\* the relation hops of the request as the call resolves them
HopsTried ==
    IF req.op \in {"filter", "get", "all"}
    THEN [i \in DOMAIN req.hops |-> camel_to_snake(req.hops[i])]
    ELSE req.hops

RECURSIVE Unresolved(_, _)
\* the first hop that names no relationship of the class the preceding hops
\* reach, with that class; segment "" and the class reached if all resolve
Unresolved(cls, hops) ==
    IF hops = <<>> THEN [segment |-> "", cls |-> cls]
    ELSE IF Head(hops) \notin Relationships(cls)
    THEN [segment |-> Head(hops), cls |-> cls]
    ELSE Unresolved(RelTarget(cls, Head(hops)), Tail(hops))

\* what is wrong with the request: the unresolved hop, or else the unknown
\* field and the unsupported operator; cls is "" for an operator
OffencesAfter(u) ==
    IF u.segment # "" THEN {u}
    ELSE {[segment |-> req.field, cls |-> u.cls] :
             x \in {1} \cap {IF req.field # "" /\ ~HasAttr(u.cls, req.field)
                             THEN 1 ELSE 0}}
         \cup {[segment |-> req.operator, cls |-> ""] :
                 x \in {1} \cap {IF req.operator \in handled_operators \cup {""}
                                 THEN 0 ELSE 1}}

Offences == OffencesAfter(Unresolved(req.cls, HopsTried))

\* C19: an unsupported operator, an unknown field name or an unknown
\* relation name at any depth, in a Q filter, a keyword filter or a relation
\* path, fails with an error whose message names the offending operator or
\* segment and, for a name, the class it was looked up on.
C19_ErrorNames ==
    (req.op # "none" /\ Offences # {}) =>
        /\ resp.msg.err # "none"
        /\ \E o \in Offences :
              /\ o.segment \in resp.msg.names
              /\ o.cls = "" \/ o.cls \in resp.msg.names

\* the non-empty prefixes of a path
Prefixes(path) == {SubSeq(path, 1, k) : k \in DOMAIN path}

\* C20: filter, get and all called with relations=None eager-load every
\* relation declared on the entity; with relations=False they load none;
\* with a list they load exactly the listed relation paths.
C20_RelationsDefault ==
    (req.op \in {"filter", "get", "all"} /\ resp.msg.err = "none") =>
        resp.loaded =
            IF req.kind = "None" THEN {<<r>> : r \in Relationships(req.cls)}
            ELSE IF req.kind = "False" THEN {}
            ELSE Prefixes(HopsTried)

\* =========================================================================
\* Lookups that match no row (BaseModel.get, get_or_None, get_or_404,
\* fetch_related).

\* get(db, relations=relations, **kwargs): the eager loading is applied to
\* the query before the filters
GetWith(d, model, relations, kwargs) ==
    IF EagerLoads(model, relations).msg.err # "none"
    THEN GetRaised(EagerLoads(model, relations).msg.err)
    ELSE BaseModel_get(d, model, kwargs)

\* get_or_None after cls.get returned got: `if not item: return None`
get_or_None(got) == got

\* get_or_404 handing back whatever get returned
get_or_404_NoCheck(got) == got

\* get_or_404 after cls.get returned got: `if not item: raise
\* HTTPException(status_code=404)`
get_or_404(got) ==
    IF got.err = "none" /\ ~got.found THEN GetRaised("HTTP404") ELSE got

\* `if not relations: relations = [rel.key for rel in
\* inspect(self.__class__).relationships]`
RelationsOrAll(model, relations) ==
    IF relations.kind = "list" /\ relations.paths # <<>> THEN relations
    ELSE ListRelations(<< <<CHOOSE rel \in Relationships(model) : TRUE>> >>)

\* fetch_related(db, relations) of the instance self: select by self.id with
\* the eager loading, `if not instance: raise HTTPException(404)`
fetch_related(d, model, self, relations) ==
    IF apply_relations(model, RelationsOrAll(model, relations)).msg.err # "none"
    THEN GetRaised(apply_relations(model,
                                   RelationsOrAll(model, relations)).msg.err)
    ELSE IF \E r \in d[model] : r.id = self.id
    THEN [found |-> TRUE, item |-> CHOOSE r \in d[model] : r.id = self.id,
          err |-> "none"]
    ELSE GetRaised("HTTP404")

\* ---------------------------------------------- specification SpecLookup
LookupTables ==
    UNION {IncomeTables(n, {NULL, 1}, {1, 2}, {Text(2)}) : n \in 0..MaxIncomes}

\* **kwargs of the lookups
LookupKwargs ==
    { << [key |-> <<"id">>, value |-> Scalar(1)] >>,
      << [key |-> <<"id">>, value |-> Scalar(MaxIncomes + 1)] >>,
      << [key |-> <<"amount">>, value |-> Scalar(2)] >>,
      << [key |-> <<"amount", "__", "gt">>, value |-> Scalar(1)] >>,
      << [key |-> <<"contact", "__", "id">>, value |-> Scalar(1)] >>,
      << [key |-> <<"nope">>, value |-> Scalar(1)] >> }

\* relations= of the lookups
LookupRelations ==
    {NoRelations, ListRelations(<< <<"contact">> >>),
     ListRelations(<< <<"foo">> >>)}

InitLookup ==
    /\ db \in {[Income |-> t, Contact |-> ContactRows] : t \in LookupTables}
    /\ pre = IdleDb /\ req = IdleReq /\ resp = IdleResp
    /\ prev = IdlePrev /\ clock = 0
    /\ session = IdleSession /\ ser = IdleSer
    /\ qa = NoFilter /\ qb = NoFilter /\ qc = NoFilter /\ qop = "none"

\* the state after a lookup that handed back got
Looked(request, got) ==
    /\ req = IdleReq
    /\ req' = request
    /\ resp' = [err |-> got.err, item |-> got.item, found |-> got.found]
    /\ pre' = db
    /\ UNCHANGED <<db, prev, clock, qa, qb, qc, qop, session, ser>>

\* Income.get(db, relations=relations, **kwargs)
GetOne ==
    \E kwargs \in LookupKwargs, relations \in LookupRelations :
        Looked([op |-> "get", kwargs |-> kwargs, relations |-> relations],
               GetWith(db, "Income", relations, kwargs))

\* Income.get_or_None(db, relations=relations, **kwargs)
GetOrNone ==
    \E kwargs \in LookupKwargs, relations \in LookupRelations :
        Looked([op |-> "get_or_None", kwargs |-> kwargs,
                relations |-> relations],
               get_or_None(GetWith(db, "Income", relations, kwargs)))

\* Income.get_or_404(db, relations=relations, **kwargs)
GetOr404 ==
    \E kwargs \in LookupKwargs, relations \in LookupRelations :
        Looked([op |-> "get_or_404", kwargs |-> kwargs,
                relations |-> relations],
               get_or_404(GetWith(db, "Income", relations, kwargs)))

\* self.fetch_related(db, relations) on an Income instance loaded earlier,
\* whose row may have been deleted since
FetchRelated ==
    \E id \in 1..(MaxIncomes + 1), relations \in LookupRelations :
        Looked([op |-> "fetch_related", id |-> id, relations |-> relations],
               fetch_related(db, "Income", [id |-> id], relations))

NextLookup == GetOne \/ GetOrNone \/ GetOr404 \/ FetchRelated

SpecLookup == InitLookup /\ [][NextLookup]_vars

\* the rows the lookup of the request selects, and whether the query ran
LookupRan ==
    IF req.op = "fetch_related"
    THEN apply_relations("Income",
                         RelationsOrAll("Income", req.relations)).msg.err = "none"
    ELSE GetWith(pre, "Income", req.relations, req.kwargs).err = "none"

NoRowMatches ==
    IF req.op = "fetch_related" THEN \A r \in pre.Income : r.id # req.id
    ELSE ~GetWith(pre, "Income", req.relations, req.kwargs).found

Segment(kind, signed, expired, sub, role) ==
    [kind |-> kind, signed |-> signed, expired |-> expired, sub |-> sub,
     role |-> role]

Word(kind) == Segment(kind, FALSE, FALSE, NULL, NULL)

\* a JWT: whether its signature verifies under SECRET_KEY, whether its exp
\* has passed, its sub and role claims (NULL when the claim is absent)
Jwt(signed, expired, sub, role) == Segment("jwt", signed, expired, sub, role)

\* str.startswith("Bearer ")
StartsWithBearer(s) ==
    Len(s) >= 2 /\ s[1].kind = "Bearer" /\ s[2].kind = "space"

\* str.split(" ")[1] of a string with at least one space: what stands
\* between the first space and the next one
RECURSIVE UpToSpace(_)
UpToSpace(s) ==
    IF s = <<>> \/ Head(s).kind = "space" THEN <<>>
    ELSE <<Head(s)>> \o UpToSpace(Tail(s))

RECURSIVE AfterSpace(_)
AfterSpace(s) ==
    IF s = <<>> THEN <<>>
    ELSE IF Head(s).kind = "space" THEN Tail(s)
    ELSE AfterSpace(Tail(s))

SecondPiece(s) == UpToSpace(AfterSpace(s))

\* None where a header value or a token is expected, and a str
NoValue == [given |-> FALSE, segs |-> <<>>]
Str(s) == [given |-> TRUE, segs |-> s]

\* `if not token`
NoToken(token) == ~token.given \/ token.segs = <<>>

\* what get_user or get_current_user answers: the error raised, the id of
\* the user returned, self._user afterwards
Auth(err, user, cached) == [err |-> err, user |-> user, cached |-> cached]

Unauthorized == Auth("HTTP401", NULL, NULL)

\* jwt.decode(token, SECRET_KEY, algorithms=[ALGORITHM]): JWTError unless the
\* string is one JWT signed with the key, ExpiredSignatureError when its exp
\* has passed
Decodes(token) ==
    /\ Len(token.segs) = 1
    /\ token.segs[1].kind = "jwt"
    /\ token.segs[1].signed
    /\ ~token.segs[1].expired

\* get_current_user(token, db): every exception of the try block, the 401s
\* raised inside it included, is raised again as a 401
get_current_user(d, token) ==
    IF ~Decodes(token) THEN Unauthorized
    ELSE IF token.segs[1].sub = NULL THEN Unauthorized
    ELSE IF ~\E u \in d.User : u.id = token.segs[1].sub THEN Unauthorized
    ELSE IF token.segs[1].role = NULL THEN Unauthorized
    ELSE Auth("none", token.segs[1].sub, token.segs[1].sub)

\* get_user, `token = ...`: the token taken from connection_params (a
\* subscription) or from the request headers (a query or mutation)
TokenOf(operation, hasRequest, authorization) ==
    IF operation = "subscription"
    THEN IF authorization.given /\ StartsWithBearer(authorization.segs)
         THEN Str(SecondPiece(authorization.segs))
         ELSE authorization
    ELSE IF hasRequest /\ authorization.given
                       /\ StartsWithBearer(authorization.segs)
         THEN Str(SecondPiece(authorization.segs))
         ELSE NoValue

\* ContextWrapper.get_user with self._user = cached
get_user(d, cached, operation, hasRequest, authorization) ==
    IF cached # NULL THEN Auth("none", cached, cached)
    ELSE IF NoToken(TokenOf(operation, hasRequest, authorization))
    THEN Auth("ValueError", NULL, NULL)
    ELSE get_current_user(d, TokenOf(operation, hasRequest, authorization))

\* ------------------------------------------------ specification SpecAuth
MaxUsers == 1          \* rows of the User table

Jwts ==
    {Jwt(signed, expired, sub, role) :
        signed \in BOOLEAN, expired \in BOOLEAN,
        sub \in {NULL} \cup (1..(MaxUsers + 1)), role \in {NULL, 1}}

Tokens == {<<j>> : j \in Jwts} \cup {<<Word("junk")>>}

Authorizations ==
    {NoValue, Str(<<>>), Str(<<Word("Bearer"), Word("space")>>)}
    \cup {Str(t) : t \in Tokens}
    \cup {Str(<<Word("Bearer"), Word("space")>> \o t) : t \in Tokens}
    \cup {Str(<<Word("Basic"), Word("space")>> \o t) : t \in Tokens}

InitAuth ==
    /\ db \in {[Income |-> {}, Contact |-> ContactRows,
                User |-> {[id |-> i] : i \in 1..n}] : n \in 0..MaxUsers}
    /\ pre = IdleDb /\ req = IdleReq /\ resp = IdleResp
    /\ prev = IdlePrev /\ clock = 0
    /\ session = IdleSession /\ ser = IdleSer
    /\ qa = NoFilter /\ qb = NoFilter /\ qc = NoFilter /\ qop = "none"

\* the first `await info.context.user` of a request
GetUser ==
    \E operation \in {"subscription", "query/mutation"},
       hasRequest \in BOOLEAN, authorization \in Authorizations :
        /\ req = IdleReq
        /\ req' = [op |-> "get_user", operation |-> operation,
                   hasRequest |-> hasRequest, authorization |-> authorization]
        /\ resp' = get_user(db, NULL, operation, hasRequest, authorization)
        /\ UNCHANGED <<db, pre, prev, clock, qa, qb, qc, qop, session, ser>>

\* a later `await info.context.user` of the same request
GetUserAgain ==
    /\ req.op = "get_user" /\ clock = 0
    /\ clock' = 1
    /\ prev' = [req |-> req, resp |-> resp]
    /\ resp' = get_user(db, resp.cached, req.operation, req.hasRequest,
                        req.authorization)
    /\ UNCHANGED <<db, pre, req, qa, qb, qc, qop, session, ser>>

\* a REST route depending on get_current_user, the token handed over by
\* oauth2_scheme
GetCurrentUser ==
    \E token \in Tokens :
        /\ req = IdleReq
        /\ req' = [op |-> "get_current_user", operation |-> "rest",
                   hasRequest |-> TRUE,
                   authorization |-> Str(<<Word("Bearer"), Word("space")>>
                                         \o token)]
        /\ resp' = get_current_user(db, Str(token))
        /\ UNCHANGED <<db, pre, prev, clock, qa, qb, qc, qop, session, ser>>

NextAuth == GetUser \/ GetUserAgain \/ GetCurrentUser

SpecAuth == InitAuth /\ [][NextAuth]_vars

\* the Authorization value is "Bearer " followed by one valid token: signed,
\* not expired, its sub the id of a user, with a role claim
ValidBearer(authorization) ==
    /\ authorization.given
    /\ Len(authorization.segs) = 3
    /\ authorization.segs[1].kind = "Bearer"
    /\ authorization.segs[2].kind = "space"
    /\ authorization.segs[3].kind = "jwt"
    /\ authorization.segs[3].signed /\ ~authorization.segs[3].expired
    /\ \E u \in db.User : u.id = authorization.segs[3].sub
    /\ authorization.segs[3].role # NULL

\* C22: get_current_user returns a user only for a token with a valid
\* signature, not expired, whose subject resolves to an existing user and
\* which carries a role claim; every other case, a missing or non-Bearer
\* Authorization value in the GraphQL context included, is a 401 error and
\* yields no user
C22_Unauthorized ==
    req.op \in {"get_user", "get_current_user"} =>
        IF ValidBearer(req.authorization)
              /\ (req.op = "get_user" =>
                     req.operation = "subscription" \/ req.hasRequest)
        THEN resp.err = "none" /\ resp.user = req.authorization.segs[3].sub
        ELSE resp.err = "HTTP401" /\ resp.user = NULL

\* C23: within one serialize_instance call tree, a visit to an instance
\* whose build has completed is answered with the output object stored for
\* it in the cache, the one object built for that instance; None is the
\* answer for a non-None instance only while its build is in progress, and
\* the first visit of an instance is answered with the object built
C23_CacheHit ==
    ser.op = "serialize" =>
        /\ \A i \in DOMAIN ser.visits :
              IF ser.visits[i].instance \in ser.visits[i].completed
              THEN /\ ser.visits[i].out # NULL
                   /\ ser.visits[i].out = ser.instance_cache[ser.visits[i].instance]
                   /\ BuiltFor(ser.visits[i].instance) = {ser.visits[i].out}
              ELSE ser.visits[i].out = NULL
        /\ \A i \in DOMAIN ser.roots :
              ser.roots[i] # NULL =>
                  /\ ser.results[i] # NULL
                  /\ ser.objs[ser.results[i]].src = ser.roots[i]

\* the first instance refers to the second and lists both: its own entry
\* in the list is a back reference answered None, the entry of the second,
\* built by then, is the object its to-one reference holds
C23_Witness ==
    /\ ser.op = "serialize" /\ ser.cls = "GraphSchema" /\ ser.roots = <<1>>
    /\ Len(ser.graph) = 2
    /\ ser.graph[1].contact = 2 /\ ser.graph[1].incomes = <<1, 2>>
    /\ \E i, j \in DOMAIN ser.visits :
          /\ ser.visits[i] = [instance |-> 1, out |-> NULL, completed |-> {2}]
          /\ ser.visits[j].instance = 2 /\ ser.visits[j].completed = {2}
          /\ ser.visits[j].out = ser.objs[ser.results[1]].contact
    /\ ser.objs[ser.results[1]].incomes
          = <<NULL, ser.objs[ser.results[1]].contact>>

\* C24: non-paginated search returns a flat list in which each matching
\* entity appears exactly once, in the order the ordering spec gives (none
\* is given here: any order), also when a keyword field or a filter joins a
\* to-many relation so that one entity has several joined rows.
C24_SearchOnce ==
    (req.op = "search" /\ ~req.paginate /\ resp.err = "none") =>
        /\ Range(resp.items) = MatchingIds
        /\ \A i, j \in DOMAIN resp.items :
              resp.items[i] = resp.items[j] => i = j

\* =========================================================================
\* Ordering through relations (specification SpecOuterJoin): filter, search
\* and all with an order_by that walks relations, on tables where related
\* rows are missing.
\* =========================================================================
\* all, executing the query with ordering ob: no try block, result.unique()
AllExecute(d, model, ob) ==
    IF ob.err # "none" THEN Raised(ob.err)
    ELSE IF BadJoins(ob.joins) THEN Raised("DBAPIError")
    ELSE Listing(Unique(Scalars(
           SortRows(JoinAll(d, ob.joins, FromRoot(d, model)), ob.keys,
                    ob.joins))))

\* all(db, order_by=order_by)
BaseModel_all(d, model, order_by) ==
    AllExecute(d, model, OrderOf(model, order_by, FALSE, <<>>))

\* incomes with and without a contact; the second contact has no income
OuterTables ==
    UNION {IncomeTables(n, {NULL, 1}, {1, 2}, {Text(1)}) : n \in 0..MaxIncomes}

\* order_by through one hop, beside an own column, through a name that is
\* no relation, and through two hops (over these two classes the second hop
\* leads back to the table of the root entity)
OuterOrders(model) ==
    IF model = "Income"
    THEN { << <<"contact", ".", "first_name">> >>,
           << <<"-", "contact", "__", "first_name">> >>,
           << <<"-", "amount">>, <<"contact", ".", "id">> >>,
           << <<"contact", "__", "incomes", "__", "amount">> >>,
           << <<"nope", ".", "amount">> >> }
    ELSE { << <<"incomes", ".", "amount">> >>,
           << <<"-", "incomes", "__", "description">>, <<"first_name">> >>,
           << <<"incomes", "__", "contact", "__", "first_name">> >> }

InitOuterJoin ==
    /\ db \in {[Income |-> t, Contact |-> ContactRows] : t \in OuterTables}
    /\ pre = IdleDb /\ req = IdleReq /\ resp = IdleResp
    /\ prev = IdlePrev /\ clock = 0
    /\ session = IdleSession /\ ser = IdleSer
    /\ qa = NoFilter /\ qb = NoFilter /\ qc = NoFilter /\ qop = "none"

\* the state after a listing call with order_by
Listed(request, out) ==
    /\ req = IdleReq
    /\ req' = request
    /\ resp' = out
    /\ UNCHANGED <<db, pre, prev, clock, qa, qb, qc, qop, session, ser>>

\* cls.filter(db, order_by=order_by, **kwargs)
FilterJoined ==
    \E model \in Classes : \E order_by \in OuterOrders(model),
                              kwargs \in SearchKwargs(model) :
        Listed([op |-> "filter", cls |-> model, kwargs |-> kwargs,
                order_by |-> order_by],
               BaseModel_filter(db, model, NoFilter, kwargs, order_by, FALSE,
                                DefaultPage, DefaultPageSize))

\* cls.search(db, order_by=order_by, **kwargs)
SearchJoined ==
    \E model \in Classes : \E order_by \in OuterOrders(model),
                              kwargs \in SearchKwargs(model) :
        Listed([op |-> "search", cls |-> model, kwargs |-> kwargs,
                order_by |-> order_by],
               BaseModel_search(db, model, NULL, <<>>, order_by, FALSE,
                                DefaultPage, DefaultPageSize, kwargs))

\* cls.all(db, order_by=order_by)
AllJoined ==
    \E model \in Classes : \E order_by \in OuterOrders(model) :
        Listed([op |-> "all", cls |-> model, kwargs |-> <<>>,
                order_by |-> order_by],
               BaseModel_all(db, model, order_by))

NextOuterJoin == FilterJoined \/ SearchJoined \/ AllJoined

SpecOuterJoin == InitOuterJoin /\ [][NextOuterJoin]_vars

\* what the call of the request returns when its order_by is left out
Unordered ==
    IF req.op = "filter"
    THEN BaseModel_filter(db, req.cls, NoFilter, req.kwargs, <<>>, FALSE,
                          DefaultPage, DefaultPageSize)
    ELSE IF req.op = "search"
    THEN BaseModel_search(db, req.cls, NULL, <<>>, <<>>, FALSE, DefaultPage,
                          DefaultPageSize, req.kwargs)
    ELSE BaseModel_all(db, req.cls, <<>>)

C26_Refreshed ==
    (/\ req.op \in {"save", "create", "create_or_update", "get_or_create",
                    "update", "extend", "remove", "bulk_create"}
     /\ resp.err = "none"
     /\ req.op = "get_or_create" => resp.created) =>
        /\ session.commits + session.flushes = 1
        /\ session.refreshed >= 1

\* =========================================================================
\* The session dependency (config/db.py get_db, base/gql/app.py
\* context_getter; specifications SpecDb and SpecDbLive).  session is the
\* list of the sessions SessionLocal has made, req the requests: where each
\* stands in get_db and the session it was handed (0: none), resp how the
\* handler of each ended.
\* =========================================================================
MaxRequests == 3       \* requests depending on get_db

Requests == 1..MaxRequests

\* SessionLocal() handing out the session made first
SessionLocal_Shared(sessions) ==
    IF sessions = <<>> THEN <<[state |-> "open", closes |-> 0]>> ELSE sessions

\* SessionLocal(): a new AsyncSession
SessionLocal(sessions) == Append(sessions, [state |-> "open", closes |-> 0])

\* await db.close(); closing a closed session changes nothing
Close(sessions, k) ==
    [sessions EXCEPT ![k] = [state |-> "closed", closes |-> @.closes + 1]]

InitDb ==
    /\ db = IdleDb /\ pre = IdleDb /\ prev = IdlePrev /\ clock = 0
    /\ qa = NoFilter /\ qb = NoFilter /\ qc = NoFilter /\ qop = "none"
    /\ ser = IdleSer
    /\ session = <<>>
    /\ req = [r \in Requests |-> [op |-> "waiting", db |-> 0]]
    /\ resp = [r \in Requests |-> "none"]

\* context_getter(db=Depends(get_db)) / a route with Depends(get_db):
\* `async with SessionLocal() as db: try: yield db`
Acquire(r) ==
    /\ req[r].op = "waiting"
    /\ session' = SessionLocal(session)
    /\ req' = [req EXCEPT ![r] = [op |-> "yielded",
                                  db |-> Len(SessionLocal(session))]]
    /\ UNCHANGED <<db, pre, resp, prev, clock, qa, qb, qc, qop, ser>>

\* the resolver or route using the session returns
Return(r) ==
    /\ req[r].op = "yielded"
    /\ req' = [req EXCEPT ![r].op = "finally"]
    /\ resp' = [resp EXCEPT ![r] = "returned"]
    /\ UNCHANGED <<db, pre, prev, clock, qa, qb, qc, qop, session, ser>>

\* the resolver or route using the session raises: the exception is thrown
\* into the generator at its yield
Raise(r) ==
    /\ req[r].op = "yielded"
    /\ req' = [req EXCEPT ![r].op = "finally"]
    /\ resp' = [resp EXCEPT ![r] = "raised"]
    /\ UNCHANGED <<db, pre, prev, clock, qa, qb, qc, qop, session, ser>>

\* `finally: await db.close()`
Finally(r) ==
    /\ req[r].op = "finally"
    /\ session' = Close(session, req[r].db)
    /\ req' = [req EXCEPT ![r].op = "exit"]
    /\ UNCHANGED <<db, pre, resp, prev, clock, qa, qb, qc, qop, ser>>

\* leaving `async with SessionLocal() as db`: AsyncSession.__aexit__ closes
\* the session once more
Exit(r) ==
    /\ req[r].op = "exit"
    /\ session' = [session EXCEPT ![req[r].db].state = "closed"]
    /\ req' = [req EXCEPT ![r].op = "done"]
    /\ UNCHANGED <<db, pre, resp, prev, clock, qa, qb, qc, qop, ser>>

NextDb ==
    \E r \in Requests : Acquire(r) \/ Return(r) \/ Raise(r) \/ Finally(r)
                           \/ Exit(r)

SpecDb == InitDb /\ [][NextDb]_vars

\* a resolver or route that holds a session ends, returning or raising, and
\* the framework then resumes the generator of the dependency to its end
SpecDbLive ==
    /\ SpecDb
    /\ \A r \in Requests :
          /\ WF_vars(Return(r) \/ Raise(r))
          /\ WF_vars(Finally(r))
          /\ WF_vars(Exit(r))

\* request r holds a session
Holds(r) == req[r].op \in {"yielded", "finally", "exit"}

\* the session request r was handed is closed
Closed(r) == req[r].db # 0 /\ session[req[r].db].state = "closed"

\* C27: every request that acquires a session through get_db eventually
\* closes it, after a normal return and after an error alike, and no session
\* is handed to two requests: each get_db invocation yields a fresh session
C27_SessionClosed ==
    /\ [](\A r1, r2 \in Requests :
            (r1 # r2 /\ req[r1].db # 0) => req[r1].db # req[r2].db)
    /\ \A r \in Requests : (req[r].op = "yielded") ~> Closed(r)
    /\ \A r \in Requests : [](Closed(r) => [](Closed(r)))

\* one request raised, another returned, a third still holds its session;
\* the sessions of the first two are closed
C27_Witness ==
    \E r1, r2, r3 \in Requests :
        /\ resp[r1] = "raised" /\ resp[r2] = "returned"
        /\ req[r1].op = "done" /\ req[r2].op = "done"
        /\ Closed(r1) /\ Closed(r2)
        /\ req[r3].op = "yielded" /\ session[req[r3].db].state = "open"
        /\ Cardinality({req[r1].db, req[r2].db, req[r3].db}) = 3

\* the filter of the request as a Q object and as a keyword argument
AsQ == apply_filters(req.cls, Q(<<[key |-> req.key, value |-> req.value]>>),
                     <<>>)

AsKwargs == apply_filters(req.cls, NoFilter,
                          <<[key |-> req.key, value |-> req.value]>>)

\* C28: for every filter key k, with zero, one or several relation hops,
\* and value v, apply_filters(query, cls, filters=Q(k=v)) and
\* apply_filters(query, cls, k=v) give queries that select the same rows
\* through the same relation joins, or both fail with the same kind of error
C28_FormsAgree ==
    req.op = "filter" =>
        /\ AsQ.err = AsKwargs.err
        /\ AsQ.err = "none" =>
              /\ AsQ.joins = AsKwargs.joins
              /\ FilterMatching(db, req.cls, AsQ, AsQ.joins)
                    = FilterMatching(db, req.cls, AsKwargs, AsKwargs.joins)

\* =========================================================================
\* Aliases and joins of one call (specification SpecAlias): apply_filters
\* with a Q of two keys, apply_filters with two keyword arguments, and
\* keyword search over two fields.
\* =========================================================================
\* keys and search fields with zero to three relation hops; the keys of
\* one dict differ
AliasKeys(model) ==
    IF model = "Income"
    THEN { <<"amount">>, <<"contact", "__", "id">>,
           <<"contact", "__", "id", "__", "gte">>,
           <<"contact", "__", "first_name">>,
           <<"contact", "__", "incomes", "__", "amount">>,
           <<"contact", "__", "incomes", "__", "contact", "__", "id">> }
    ELSE { <<"first_name">>, <<"incomes", "__", "amount">>,
           <<"incomes", "__", "id">>,
           <<"incomes", "__", "contact", "__", "id">> }

InitAlias ==
    /\ db = IdleDb /\ pre = IdleDb /\ req = IdleReq /\ resp = IdleResp
    /\ prev = IdlePrev /\ clock = 0
    /\ session = IdleSession /\ ser = IdleSer
    /\ qa = NoFilter /\ qb = NoFilter /\ qc = NoFilter /\ qop = "none"

\* what apply_filters leaves: the error, the aliases dict and the joins
AppliedFilters(af) == [err |-> af.err, aliases |-> af.kwAliases, joins |-> af.joins]

\* the state after a call that built the query q
Applied(request, q) ==
    /\ req = IdleReq
    /\ req' = request
    /\ resp' = [err |-> q.err, aliases |-> q.aliases, joins |-> q.joins]
    /\ UNCHANGED <<db, pre, prev, clock, qa, qb, qc, qop, session, ser>>

\* apply_filters(select(cls), cls, filters=Q(**{k1: 1, k2: 1}))
ApplyFiltersQ ==
    \E model \in Classes : \E k1 \in AliasKeys(model), k2 \in AliasKeys(model) :
        /\ k1 # k2
        /\ Applied([op |-> "Q", cls |-> model, keys |-> <<k1, k2>>],
                AppliedFilters(apply_filters(model,
                              Q(<<[key |-> k1, value |-> Scalar(1)],
                                  [key |-> k2, value |-> Scalar(1)]>>), <<>>)))

\* apply_filters(select(cls), cls, **{k1: 1, k2: 1})
ApplyFiltersKwargs ==
    \E model \in Classes : \E k1 \in AliasKeys(model), k2 \in AliasKeys(model) :
        /\ k1 # k2
        /\ Applied([op |-> "kwargs", cls |-> model, keys |-> <<k1, k2>>],
                AppliedFilters(apply_filters(model, NoFilter,
                               <<[key |-> k1, value |-> Scalar(1)],
                                 [key |-> k2, value |-> Scalar(1)]>>)))

\* _apply_keyword_search(select(cls), cls, keyword, [k1, k2])
KeywordSearch ==
    \E model \in Classes : \E k1 \in AliasKeys(model), k2 \in AliasKeys(model) :
        Applied([op |-> "search", cls |-> model, keys |-> <<k1, k2>>],
                apply_keyword_search(model, Text(1), <<k1, k2>>))

NextAlias == ApplyFiltersQ \/ ApplyFiltersKwargs \/ KeywordSearch

SpecAlias == InitAlias /\ [][NextAlias]_vars

\* the relation hops of a key of the request
HopsOf(key) ==
    IF req.op = "search"
    THEN SubSeq(Split(key, {"__", "."}), 1, Len(Split(key, {"__", "."})) - 1)
    ELSE ParseKey(Split(key, {"__"})).relations

\* the distinct relation paths of the request: the non-empty prefixes of
\* the hops of its keys
RelationPaths ==
    UNION {{SubSeq(HopsOf(req.keys[i]), 1, n) :
               n \in 1..Len(HopsOf(req.keys[i]))} : i \in DOMAIN req.keys}

\* the alias the call resolves the path to, with the aliases dict it left
BoundTo(path) ==
    IF path = <<>> THEN ROOT
    ELSE IF req.op = "Q"
    THEN WalkRelations(req.cls, path, ROOT, resp.aliases).cur
    ELSE IF req.op = "kwargs"
    THEN KwWalk(req.cls, path, ROOT, resp.aliases, <<>>).cur
    ELSE SearchWalk(req.cls, ROOT, path, resp.aliases, <<>>).cur

\* C29: within one apply_filters, Q build or keyword-search call every
\* distinct relation path is bound to its own alias and joined exactly once,
\* from the model reached by the preceding hop: two paths never share an
\* alias, and a path shared by several keys is not joined a second time
C29_OneAliasPerPath ==
    (req.op \in {"Q", "kwargs", "search"} /\ resp.err = "none") =>
        /\ \A p, q \in RelationPaths : p # q => BoundTo(p) # BoundTo(q)
        /\ \A p \in RelationPaths :
              /\ Cardinality({i \in DOMAIN resp.joins :
                                 resp.joins[i].alias = BoundTo(p)}) = 1
              /\ \A i \in DOMAIN resp.joins :
                    resp.joins[i].alias = BoundTo(p) =>
                       /\ resp.joins[i].rel = p[Len(p)]
                       /\ resp.joins[i].parent
                             = BoundTo(SubSeq(p, 1, Len(p) - 1))

\* =========================================================================
\* Two requests running get_or_create side by side, each on the session
\* get_db handed it (specification SpecRace).  db is what is committed;
\* session[r] is the session of request r: the rows it flushed without
\* committing, which no other session sees; req[r] is where request r
\* stands between the awaits of get_or_create, resp[r] what it returned.
\* =========================================================================
Racers == {1, 2}

RaceTables == UNION {IncomeTables(n, {NULL}, {1, 2}, {Text(2)}) : n \in 0..1}

RaceKwargs ==
    { << [key |-> <<"amount">>, value |-> Scalar(1)] >>,
      << [key |-> <<"description">>, value |-> Scalar(Text(1))] >> }

\* the rows the session of request r reads: the committed ones and its own
Visible(r) == [db EXCEPT !.Income = @ \cup session[r].pending]

\* every row stored or pending anywhere: no uuid4 repeats one of their ids
Existing == db.Income \cup UNION {session[r].pending : r \in Racers}

NoAnswer == [err |-> "none", returned |-> {}, created |-> FALSE]

InitRace ==
    /\ prev = IdlePrev /\ clock = 0
    /\ qa = NoFilter /\ qb = NoFilter /\ qc = NoFilter /\ qop = "none"
    /\ ser = IdleSer
    /\ \E table \in RaceTables : db = [IdleDb EXCEPT !.Income = table]
    /\ pre = db
    /\ session = [r \in Racers |-> [state |-> "none", pending |-> {}]]
    /\ \E kw \in [Racers -> RaceKwargs], cm \in [Racers -> BOOLEAN] :
          req = [r \in Racers |->
                    [op |-> "waiting", kwargs |-> kw[r], commit |-> cm[r],
                     got |-> GetRaised("none"), new_obj |-> {}]]
    /\ resp = [r \in Racers |-> NoAnswer]

\* `async with SessionLocal() as db: try: yield db`: request r is handed
\* its own session
Begin(r) ==
    /\ req[r].op = "waiting"
    /\ session' = [session EXCEPT ![r] = [state |-> "open", pending |-> {}]]
    /\ req' = [req EXCEPT ![r].op = "get"]
    /\ UNCHANGED <<db, pre, resp, prev, clock, qa, qb, qc, qop, ser>>

\* `item = await cls.get(db, relations=relations, **kwargs)`;
\* `if item: return item`
RaceGet(r) ==
    /\ req[r].op = "get"
    /\ req' = [req EXCEPT
                 ![r].got = BaseModel_get(Visible(r), "Income", req[r].kwargs),
                 ![r].op = IF BaseModel_get(Visible(r), "Income",
                                            req[r].kwargs).found
                           THEN "finally" ELSE "add"]
    /\ resp' = [resp EXCEPT ![r].returned =
                   IF BaseModel_get(Visible(r), "Income", req[r].kwargs).found
                   THEN {BaseModel_get(Visible(r), "Income",
                                       req[r].kwargs).item}
                   ELSE {}]
    /\ UNCHANGED <<db, pre, prev, clock, qa, qb, qc, qop, session, ser>>

\* the row get_or_create adds after its lookup missed
Added(r) ==
    GetOrCreateFrom(Existing, req[r].got, KwargsDict(req[r].kwargs),
                    clock + 1).item

\* `new_obj = cls(**data); db.add(new_obj)` and then `await db.commit()` or
\* `await db.flush()`
RaceWrite(r) ==
    /\ req[r].op = "add"
    /\ clock' = clock + 1
    /\ IF req[r].commit
       THEN /\ db' = [db EXCEPT !.Income = @ \cup session[r].pending
                                             \cup {Added(r)}]
            /\ session' = [session EXCEPT ![r].pending = {}]
       ELSE /\ session' = [session EXCEPT ![r].pending = @ \cup {Added(r)}]
            /\ UNCHANGED db
    /\ req' = [req EXCEPT ![r].new_obj = {Added(r)}, ![r].op = "refresh"]
    /\ resp' = [resp EXCEPT ![r].created = TRUE]
    /\ UNCHANGED <<pre, prev, qa, qb, qc, qop, ser>>

\* `await db.refresh(new_obj)`; `return new_obj`
RaceRefresh(r) ==
    /\ req[r].op = "refresh"
    /\ resp' = [resp EXCEPT ![r].returned =
                   {row \in Visible(r).Income :
                       \E o \in req[r].new_obj : o.id = row.id}]
    /\ req' = [req EXCEPT ![r].op = "finally"]
    /\ UNCHANGED <<db, pre, prev, clock, qa, qb, qc, qop, session, ser>>

\* `finally: await db.close()`: what the session did not commit is rolled
\* back
RaceClose(r) ==
    /\ req[r].op = "finally"
    /\ session' = [session EXCEPT ![r] = [state |-> "closed", pending |-> {}]]
    /\ req' = [req EXCEPT ![r].op = "done"]
    /\ UNCHANGED <<db, pre, resp, prev, clock, qa, qb, qc, qop, ser>>

NextRace ==
    \E r \in Racers : Begin(r) \/ RaceGet(r) \/ RaceWrite(r) \/ RaceRefresh(r)
                         \/ RaceClose(r)

SpecRace == InitRace /\ [][NextRace]_vars

\* request r is past the return of get_or_create
HasReturned(r) == req[r].op \in {"finally", "done"}

\* the two requests pass the same kwargs, and no row matched them when the
\* first of them began
SameMiss ==
    /\ req[1].kwargs = req[2].kwargs
    /\ ~BaseModel_get(pre, "Income", req[1].kwargs).found

\* C30: when two requests, each on its own session, run get_or_create with
\* identical kwargs while no matching row exists, then however their
\* lookups, commits or flushes, and refreshes interleave, at most one row is
\* inserted and both calls return the same row
C30_OneRow ==
    (SameMiss /\ HasReturned(1) /\ HasReturned(2)) =>
        /\ Cardinality({r \in Racers : resp[r].created}) <= 1
        /\ resp[1].returned = resp[2].returned
====
